---- MODULE Spec2Model ----
(***************************************************************************)
(* Candidate-to-job matching engine (models/improved_ai_models.py) and the *)
(* create_job handler that rebuilds its index (app.py).                    *)
(*                                                                         *)
(* Strings are sequences of one-character strings, so that lower(),        *)
(* strip(), re.findall and the synonym lookup are computed, not assumed.   *)
(* Scores are exact rationals <<numerator, denominator>>.                  *)
(***************************************************************************)
EXTENDS Integers, Sequences, FiniteSets, TLC

VARIABLES
  \* ImprovedTalentMatcher fields and the catalog file
  catalog_file, jobs_data, job_embeddings, faiss_index,
  tfidf_vectorizer, job_tfidf_vectors,
  \* the serving process and the last match request
  phase, request, result, propagated, last_load,
  \* a load_jobs and a match_candidate_to_jobs running in two threads
  lpc, l_old, mpc, m_cand, m_top_k, m_k, m_hits, m_tfidf, m_job, m_matches,
  \* normalize_skill_name applied once and twice
  n_word, n_in, n_out, n_out2,
  \* get_confidence_band applied to two scores
  b_score1, b_score2, b_band1, b_band2,
  \* one call of a method of the matcher that reads no field: the method,
  \* its arguments and what it returned
  c_fn, c_args, c_ret

matcher_vars == << catalog_file, jobs_data, job_embeddings, faiss_index,
                   tfidf_vectorizer, job_tfidf_vectors >>
serve_vars == << phase, request, result, propagated, last_load >>
thread_vars == << lpc, l_old, mpc, m_cand, m_top_k, m_k, m_hits, m_tfidf,
                  m_job, m_matches >>
norm_vars == << n_word, n_in, n_out, n_out2 >>
band_vars == << b_score1, b_score2, b_band1, b_band2 >>
call_vars == << c_fn, c_args, c_ret >>
vars == << matcher_vars, serve_vars, thread_vars, norm_vars, band_vars,
           call_vars >>

\* Python's None
None == "None"

(***************************************************************************)
(* Bounds of the model                                                     *)
(***************************************************************************)
\* longest run of whitespace put around a skill string
MaxPad == 1
\* longest string over NormAlphabet given to normalize_skill_name
MaxLen == 3
\* scores given to get_confidence_band are k / BandGrid
BandGrid == 100

(***************************************************************************)
(* Exact rational arithmetic for Python's float scores                     *)
(***************************************************************************)
RECURSIVE Gcd(_, _)
Gcd(a, b) == IF b = 0 THEN a ELSE Gcd(b, a % b)

Abs(x) == IF x < 0 THEN -x ELSE x

\* n/d in lowest terms, d > 0
Rat(n, d) ==
  LET g == Gcd(Abs(n), Abs(d))
      s == IF d < 0 THEN -1 ELSE 1
  IN << (s * n) \div g, (s * d) \div g >>

RInt(n) == << n, 1 >>
RAdd(x, y) == Rat(x[1] * y[2] + y[1] * x[2], x[2] * y[2])
RMul(x, y) == Rat(x[1] * y[1], x[2] * y[2])
RDiv(x, y) == Rat(x[1] * y[2], x[2] * y[1])
RLe(x, y) == x[1] * y[2] <= y[1] * x[2]
RLt(x, y) == x[1] * y[2] < y[1] * x[2]
RGe(x, y) == RLe(y, x)
RGt(x, y) == RLt(y, x)
RMax(x, y) == IF RGe(x, y) THEN x ELSE y
RMin(x, y) == IF RLe(x, y) THEN x ELSE y

(***************************************************************************)
(* str.lower() and str.strip()                                             *)
(***************************************************************************)
Uppers == << "A","B","C","D","E","F","G","H","I","J","K","L","M",
             "N","O","P","Q","R","S","T","U","V","W","X","Y","Z" >>
Lowers == << "a","b","c","d","e","f","g","h","i","j","k","l","m",
             "n","o","p","q","r","s","t","u","v","w","x","y","z" >>
Whitespace == { " ", "\t", "\n" }

LowerChar(c) ==
  IF \E i \in 1..Len(Uppers) : Uppers[i] = c
  THEN Lowers[CHOOSE i \in 1..Len(Uppers) : Uppers[i] = c]
  ELSE c

UpperChar(c) ==
  IF \E i \in 1..Len(Lowers) : Lowers[i] = c
  THEN Uppers[CHOOSE i \in 1..Len(Lowers) : Lowers[i] = c]
  ELSE c

StrLower(s) == [i \in 1..Len(s) |-> LowerChar(s[i])]
StrUpper(s) == [i \in 1..Len(s) |-> UpperChar(s[i])]

RECURSIVE LStrip(_)
LStrip(s) ==
  IF s # << >> /\ Head(s) \in Whitespace THEN LStrip(Tail(s)) ELSE s

RECURSIVE RStrip(_)
RStrip(s) ==
  IF s # << >> /\ s[Len(s)] \in Whitespace
  THEN RStrip(SubSeq(s, 1, Len(s) - 1))
  ELSE s

StrStrip(s) == RStrip(LStrip(s))

(***************************************************************************)
(* normalize_skill_name                                                    *)
(***************************************************************************)
\* the table with one more entry, whose key is the value of two others
normalizations_chained ==
  { << <<"j","s">>,
       <<"j","a","v","a","s","c","r","i","p","t">> >>,
    << <<"t","s">>,
       <<"t","y","p","e","s","c","r","i","p","t">> >>,
    << <<"k","8","s">>,
       <<"k","u","b","e","r","n","e","t","e","s">> >>,
    << <<"t","f">>,
       <<"t","e","n","s","o","r","f","l","o","w">> >>,
    << <<"m","l">>,
       <<"m","a","c","h","i","n","e"," ","l","e","a","r","n","i","n","g">> >>,
    << <<"a","i">>,
       <<"a","r","t","i","f","i","c","i","a","l"," ","i","n","t","e","l","l","i","g","e","n","c","e">> >>,
    << <<"d","l">>,
       <<"d","e","e","p"," ","l","e","a","r","n","i","n","g">> >>,
    << <<"c","v">>,
       <<"c","o","m","p","u","t","e","r"," ","v","i","s","i","o","n">> >>,
    << <<"n","l","p">>,
       <<"n","a","t","u","r","a","l"," ","l","a","n","g","u","a","g","e"," ","p","r","o","c","e","s","s","i","n","g">> >>,
    << <<"a","w","s"," ","e","c","2">>,
       <<"a","w","s">> >>,
    << <<"a","w","s"," ","s","3">>,
       <<"a","w","s">> >>,
    << <<"g","c","p"," ","b","i","g","q","u","e","r","y">>,
       <<"g","c","p">> >>,
    << <<"r","e","a","c","t",".","j","s">>,
       <<"r","e","a","c","t">> >>,
    << <<"n","o","d","e",".","j","s">>,
       <<"n","o","d","e","j","s">> >>,
    << <<"v","u","e",".","j","s">>,
       <<"v","u","e">> >>,
    << <<"a","w","s">>,
       <<"a","m","a","z","o","n"," ","w","e","b"," ","s","e","r","v","i","c","e","s">> >> }

\* the dict of normalize_skill_name, as (key, value) pairs
normalizations ==
  { << <<"j","s">>,
       <<"j","a","v","a","s","c","r","i","p","t">> >>,
    << <<"t","s">>,
       <<"t","y","p","e","s","c","r","i","p","t">> >>,
    << <<"k","8","s">>,
       <<"k","u","b","e","r","n","e","t","e","s">> >>,
    << <<"t","f">>,
       <<"t","e","n","s","o","r","f","l","o","w">> >>,
    << <<"m","l">>,
       <<"m","a","c","h","i","n","e"," ","l","e","a","r","n","i","n","g">> >>,
    << <<"a","i">>,
       <<"a","r","t","i","f","i","c","i","a","l"," ","i","n","t","e","l","l","i","g","e","n","c","e">> >>,
    << <<"d","l">>,
       <<"d","e","e","p"," ","l","e","a","r","n","i","n","g">> >>,
    << <<"c","v">>,
       <<"c","o","m","p","u","t","e","r"," ","v","i","s","i","o","n">> >>,
    << <<"n","l","p">>,
       <<"n","a","t","u","r","a","l"," ","l","a","n","g","u","a","g","e"," ","p","r","o","c","e","s","s","i","n","g">> >>,
    << <<"a","w","s"," ","e","c","2">>,
       <<"a","w","s">> >>,
    << <<"a","w","s"," ","s","3">>,
       <<"a","w","s">> >>,
    << <<"g","c","p"," ","b","i","g","q","u","e","r","y">>,
       <<"g","c","p">> >>,
    << <<"r","e","a","c","t",".","j","s">>,
       <<"r","e","a","c","t">> >>,
    << <<"n","o","d","e",".","j","s">>,
       <<"n","o","d","e","j","s">> >>,
    << <<"v","u","e",".","j","s">>,
       <<"v","u","e">> >> }

\* dict.get(key, default)
DictGet(dict, key, default) ==
  IF \E p \in dict : p[1] = key
  THEN (CHOOSE p \in dict : p[1] = key)[2]
  ELSE default

\* lower() without strip(): surrounding whitespace is kept
normalize_skill_name_nostrip(skill) ==
  LET s == StrLower(skill) IN DictGet(normalizations, s, s)

normalize_skill_name(skill) ==
  LET s == StrStrip(StrLower(skill)) IN DictGet(normalizations, s, s)

(***************************************************************************)
(* get_confidence_band                                                     *)
(***************************************************************************)
\* the AUTO threshold compared with > instead of >=
get_confidence_band_strict(score) ==
  IF RGt(score, Rat(80, 100)) THEN "AUTO"
  ELSE IF RGe(score, Rat(60, 100)) THEN "REVIEW"
  ELSE "HUMAN"

get_confidence_band(score) ==
  IF RGe(score, Rat(80, 100)) THEN "AUTO"
  ELSE IF RGe(score, Rat(60, 100)) THEN "REVIEW"
  ELSE "HUMAN"

(***************************************************************************)
(* Python built-ins the matcher uses                                       *)
(***************************************************************************)
Min2(a, b) == IF a <= b THEN a ELSE b
Max2(a, b) == IF a >= b THEN a ELSE b

\* dict.get on a JSON record: absent lists the keys the record does not
\* carry, null the keys whose value is null
HasKey(rec, key) == key \notin rec.absent
IsNull(rec, key) == HasKey(rec, key) /\ key \in rec.null

\* job.get(key, []) where the value is used as a list: the list, or << >>
\* for an absent key; a null value is the caller's to handle
JobList(job, key) ==
  IF HasKey(job, key) /\ ~ IsNull(job, key) THEN job[key] ELSE << >>

\* seq[i] for a Python index i (0-based, negative counts from the end)
PyInRange(seq, i) == (0 - Len(seq)) <= i /\ i < Len(seq)
PyIndex(seq, i) == IF i >= 0 THEN seq[i + 1] ELSE seq[Len(seq) + i + 1]

\* seq[:n]
PyPrefix(seq, n) ==
  IF n >= 0 THEN SubSeq(seq, 1, Min2(n, Len(seq)))
  ELSE SubSeq(seq, 1, Max2(0, Len(seq) + n))

\* ' '.join(strings)
RECURSIVE StrJoin(_)
StrJoin(strs) ==
  IF strs = << >> THEN << >>
  ELSE IF Len(strs) = 1 THEN strs[1]
  ELSE strs[1] \o << " " >> \o StrJoin(Tail(strs))

Range(seq) == { seq[i] : i \in 1..Len(seq) }

Digits == << "0", "1", "2", "3", "4", "5", "6", "7", "8", "9" >>
IsDigit(c) == \E i \in 1..Len(Digits) : Digits[i] = c
DigitVal(c) == (CHOOSE i \in 1..Len(Digits) : Digits[i] = c) - 1

\* re.findall(r'\d+', s), each run converted with int(); cur is the run
\* being read, << >> when none is
RECURSIVE FindNumbersFrom(_, _, _)
FindNumbersFrom(s, cur, acc) ==
  IF s = << >> THEN acc \o cur
  ELSE IF IsDigit(Head(s))
       THEN FindNumbersFrom(Tail(s),
              << (IF cur = << >> THEN 0 ELSE 10 * cur[1]) + DigitVal(Head(s)) >>,
              acc)
       ELSE FindNumbersFrom(Tail(s), << >>, acc \o cur)

FindNumbers(s) == FindNumbersFrom(s, << >>, << >>)

(***************************************************************************)
(* The skill taxonomy of __init__                                          *)
(***************************************************************************)
\* (category, skills) pairs
skill_categories ==
  << << "programming",
        { <<"p","y","t","h","o","n">>,
          <<"j","a","v","a">>,
          <<"j","a","v","a","s","c","r","i","p","t">>,
          <<"t","y","p","e","s","c","r","i","p","t">>,
          <<"c","+","+">>,
          <<"c","#">>,
          <<"g","o">>,
          <<"r","u","s","t">>,
          <<"s","c","a","l","a">> } >>,
     << "cloud",
        { <<"a","w","s">>,
          <<"g","c","p">>,
          <<"a","z","u","r","e">>,
          <<"c","l","o","u","d">>,
          <<"e","c","2">>,
          <<"s","3">>,
          <<"l","a","m","b","d","a">>,
          <<"b","i","g","q","u","e","r","y">> } >>,
     << "data",
        { <<"s","q","l">>,
          <<"n","o","s","q","l">>,
          <<"m","o","n","g","o","d","b">>,
          <<"p","o","s","t","g","r","e","s","q","l">>,
          <<"m","y","s","q","l">>,
          <<"r","e","d","i","s">>,
          <<"e","l","a","s","t","i","c","s","e","a","r","c","h">> } >>,
     << "ml_ai",
        { <<"t","e","n","s","o","r","f","l","o","w">>,
          <<"p","y","t","o","r","c","h">>,
          <<"s","c","i","k","i","t","-","l","e","a","r","n">>,
          <<"m","a","c","h","i","n","e"," ","l","e","a","r","n","i","n","g">>,
          <<"d","e","e","p"," ","l","e","a","r","n","i","n","g">>,
          <<"n","l","p">>,
          <<"c","o","m","p","u","t","e","r"," ","v","i","s","i","o","n">> } >>,
     << "devops",
        { <<"d","o","c","k","e","r">>,
          <<"k","u","b","e","r","n","e","t","e","s">>,
          <<"t","e","r","r","a","f","o","r","m">>,
          <<"j","e","n","k","i","n","s">>,
          <<"c","i","/","c","d">>,
          <<"a","n","s","i","b","l","e">>,
          <<"p","r","o","m","e","t","h","e","u","s">> } >>,
     << "frontend",
        { <<"r","e","a","c","t">>,
          <<"a","n","g","u","l","a","r">>,
          <<"v","u","e">>,
          <<"h","t","m","l">>,
          <<"c","s","s">>,
          <<"j","a","v","a","s","c","r","i","p","t">>,
          <<"t","y","p","e","s","c","r","i","p","t">> } >>,
     << "backend",
        { <<"m","i","c","r","o","s","e","r","v","i","c","e","s">>,
          <<"a","p","i">>,
          <<"r","e","s","t">>,
          <<"g","r","a","p","h","q","l">>,
          <<"f","l","a","s","k">>,
          <<"d","j","a","n","g","o">>,
          <<"s","p","r","i","n","g">> } >>,
     << "data_engineering",
        { <<"s","p","a","r","k">>,
          <<"k","a","f","k","a">>,
          <<"a","i","r","f","l","o","w">>,
          <<"e","t","l">>,
          <<"d","a","t","a"," ","p","i","p","e","l","i","n","e">>,
          <<"h","a","d","o","o","p">> } >> >>

(***************************************************************************)
(* calculate_skill_match_score                                             *)
(***************************************************************************)
NormSet(skills) == { normalize_skill_name(skills[i]) : i \in 1..Len(skills) }

RECURSIVE RSum(_)
RSum(seq) == IF seq = << >> THEN RInt(0) ELSE RAdd(Head(seq), RSum(Tail(seq)))

\* the partial credit divided by the candidate's skills of the category
CategoryCredit_per_candidate(candidate_skills_norm, job_req_norm, category_skills) ==
  LET candidate_in_category == candidate_skills_norm \cap category_skills
      job_in_category == job_req_norm \cap category_skills
  IN IF candidate_in_category # {} /\ job_in_category # {}
     THEN RMul(Rat(3, 10),
               Rat(Min2(Cardinality(candidate_in_category),
                        Cardinality(job_in_category)),
                   Cardinality(candidate_in_category)))
     ELSE RInt(0)

\* the partial credit of one taxonomy category
CategoryCredit(candidate_skills_norm, job_req_norm, category_skills) ==
  LET candidate_in_category == candidate_skills_norm \cap category_skills
      job_in_category == job_req_norm \cap category_skills
  IN IF candidate_in_category # {} /\ job_in_category # {}
     THEN RMul(Rat(3, 10),
               Rat(Min2(Cardinality(candidate_in_category),
                        Cardinality(job_in_category)),
                   Cardinality(job_in_category)))
     ELSE RInt(0)

\* the weighted combination returned without "min(final_score, 1.0)"
calculate_skill_match_score_uncapped(candidate_skills, job_requirements, job_nice_to_have) ==
  IF job_requirements = << >> THEN RInt(0)
  ELSE
    LET candidate_skills_norm == NormSet(candidate_skills)
        job_req_norm == NormSet(job_requirements)
        job_nice_norm == NormSet(job_nice_to_have)
        required_matches == Cardinality(candidate_skills_norm \cap job_req_norm)
        nice_matches == Cardinality(candidate_skills_norm \cap job_nice_norm)
        category_score ==
          RSum([c \in 1..Len(skill_categories) |->
                  CategoryCredit(candidate_skills_norm, job_req_norm,
                                 skill_categories[c][2])])
        required_score == Rat(required_matches, Cardinality(job_req_norm))
        nice_score == IF job_nice_norm # {}
                      THEN Rat(nice_matches, Cardinality(job_nice_norm))
                      ELSE RInt(0)
        final_score == RAdd(RAdd(RMul(required_score, Rat(7, 10)),
                                 RMul(nice_score, Rat(2, 10))),
                            RMul(category_score, Rat(1, 10)))
    IN final_score

\* the score computed without the early "if not job_requirements: return 0.0"
calculate_skill_match_score_no_guard(candidate_skills, job_requirements, job_nice_to_have) ==
    LET candidate_skills_norm == NormSet(candidate_skills)
        job_req_norm == NormSet(job_requirements)
        job_nice_norm == NormSet(job_nice_to_have)
        required_matches == Cardinality(candidate_skills_norm \cap job_req_norm)
        nice_matches == Cardinality(candidate_skills_norm \cap job_nice_norm)
        category_score ==
          RSum([c \in 1..Len(skill_categories) |->
                  CategoryCredit(candidate_skills_norm, job_req_norm,
                                 skill_categories[c][2])])
        required_score == IF job_req_norm # {}
                          THEN Rat(required_matches, Cardinality(job_req_norm))
                          ELSE RInt(0)
        nice_score == IF job_nice_norm # {}
                      THEN Rat(nice_matches, Cardinality(job_nice_norm))
                      ELSE RInt(0)
        final_score == RAdd(RAdd(RMul(required_score, Rat(7, 10)),
                                 RMul(nice_score, Rat(2, 10))),
                            RMul(category_score, Rat(1, 10)))
    IN RMin(final_score, RInt(1))

\* job_nice_to_have is a list, or << >> for None ("job_nice_to_have or []")
calculate_skill_match_score(candidate_skills, job_requirements, job_nice_to_have) ==
  IF job_requirements = << >> THEN RInt(0)
  ELSE
    LET candidate_skills_norm == NormSet(candidate_skills)
        job_req_norm == NormSet(job_requirements)
        job_nice_norm == NormSet(job_nice_to_have)
        required_matches == Cardinality(candidate_skills_norm \cap job_req_norm)
        nice_matches == Cardinality(candidate_skills_norm \cap job_nice_norm)
        category_score ==
          RSum([c \in 1..Len(skill_categories) |->
                  CategoryCredit(candidate_skills_norm, job_req_norm,
                                 skill_categories[c][2])])
        required_score == Rat(required_matches, Cardinality(job_req_norm))
        nice_score == IF job_nice_norm # {}
                      THEN Rat(nice_matches, Cardinality(job_nice_norm))
                      ELSE RInt(0)
        final_score == RAdd(RAdd(RMul(required_score, Rat(7, 10)),
                                 RMul(nice_score, Rat(2, 10))),
                            RMul(category_score, Rat(1, 10)))
    IN RMin(final_score, RInt(1))

(***************************************************************************)
(* calculate_experience_match_score                                        *)
(***************************************************************************)
\* the one path that divides by zero: a requirement of 0 years and a
\* candidate with negative years
experience_score_raises(candidate_years, job_experience_req) ==
  LET numbers == FindNumbers(job_experience_req) IN
  /\ Len(numbers) = 1
  /\ numbers[1] = 0
  /\ candidate_years < 0

\* the single-number branch without the floor max(0.3, .)
calculate_experience_match_score_no_floor(candidate_years, job_experience_req) ==
  IF job_experience_req = << >> THEN Rat(8, 10)
  ELSE
    LET numbers == FindNumbers(job_experience_req) IN
    IF numbers = << >> THEN Rat(8, 10)
    ELSE IF Len(numbers) = 1
    THEN LET required_years == numbers[1] IN
         IF candidate_years >= required_years THEN RInt(1)
         ELSE IF 10 * candidate_years >= 8 * required_years THEN Rat(8, 10)
         ELSE Rat(candidate_years, required_years)
    ELSE LET min_years == numbers[1]
             max_years == numbers[2]
         IN IF min_years <= candidate_years /\ candidate_years <= max_years
            THEN RInt(1)
            ELSE IF 10 * candidate_years >= 8 * min_years THEN Rat(9, 10)
            ELSE IF 10 * candidate_years <= 12 * max_years THEN Rat(8, 10)
            ELSE RMax(Rat(3, 10),
                      RMin(Rat(candidate_years, min_years),
                           Rat(max_years, candidate_years)))

\* a requirement without a number scored as unmet instead of neutral
calculate_experience_match_score_no_default(candidate_years, job_experience_req) ==
  IF job_experience_req = << >> THEN Rat(3, 10)
  ELSE
    LET numbers == FindNumbers(job_experience_req) IN
    IF numbers = << >> THEN Rat(3, 10)
    ELSE IF Len(numbers) = 1
    THEN LET required_years == numbers[1] IN
         IF candidate_years >= required_years THEN RInt(1)
         ELSE IF 10 * candidate_years >= 8 * required_years THEN Rat(8, 10)
         ELSE RMax(Rat(3, 10), Rat(candidate_years, required_years))
    ELSE LET min_years == numbers[1]
             max_years == numbers[2]
         IN IF min_years <= candidate_years /\ candidate_years <= max_years
            THEN RInt(1)
            ELSE IF 10 * candidate_years >= 8 * min_years THEN Rat(9, 10)
            ELSE IF 10 * candidate_years <= 12 * max_years THEN Rat(8, 10)
            ELSE RMax(Rat(3, 10),
                      RMin(Rat(candidate_years, min_years),
                           Rat(max_years, candidate_years)))

calculate_experience_match_score(candidate_years, job_experience_req) ==
  IF job_experience_req = << >> THEN Rat(8, 10)
  ELSE
    LET numbers == FindNumbers(job_experience_req) IN
    IF numbers = << >> THEN Rat(8, 10)
    ELSE IF Len(numbers) = 1
    THEN LET required_years == numbers[1] IN
         IF candidate_years >= required_years THEN RInt(1)
         ELSE IF 10 * candidate_years >= 8 * required_years THEN Rat(8, 10)
         ELSE RMax(Rat(3, 10), Rat(candidate_years, required_years))
    ELSE LET min_years == numbers[1]
             max_years == numbers[2]
         IN IF min_years <= candidate_years /\ candidate_years <= max_years
            THEN RInt(1)
            ELSE IF 10 * candidate_years >= 8 * min_years THEN Rat(9, 10)
            ELSE IF 10 * candidate_years <= 12 * max_years THEN Rat(8, 10)
            ELSE RMax(Rat(3, 10),
                      RMin(Rat(candidate_years, min_years),
                           Rat(max_years, candidate_years)))

(***************************************************************************)
(* generate_enhanced_explanation                                           *)
(***************************************************************************)
\* list(s)[:n] of a set s: Python's iteration order of a set of strings
\* changes from process to process, so any n elements may be the ones shown
FirstOfSet(s, n) ==
  { t \in SUBSET s : Cardinality(t) = Min2(n, Cardinality(s)) }

Part(kind, skills, years) == [ kind |-> kind, skills |-> skills, years |-> years ]

\* iterating job.get('requirements', []) or job.get('nice_to_have', [])
\* raises TypeError when the value is null
explanation_raises(job) ==
  IsNull(job, "requirements") \/ IsNull(job, "nice_to_have")

\* the explanation as the sequence of its " | "-separated parts; the set of
\* the explanations the call may return
generate_enhanced_explanation(candidate_data, job, final_score, skill_score, experience_score) ==
  LET candidate_skills == NormSet(candidate_data.skills)
      job_requirements == NormSet(JobList(job, "requirements"))
      job_nice_to_have == NormSet(JobList(job, "nice_to_have"))
      matching_required == candidate_skills \cap job_requirements
      matching_nice == candidate_skills \cap job_nice_to_have
      missing_required == job_requirements \ candidate_skills
      candidate_years == candidate_data.experience_years
      experience_part ==
        IF candidate_years > 0
        THEN << Part(IF RGe(experience_score, Rat(9, 10)) THEN "experience_excellent"
                     ELSE IF RGe(experience_score, Rat(7, 10)) THEN "experience_good"
                     ELSE "experience_review",
                     {}, candidate_years) >>
        ELSE << >>
      verdict ==
        << Part(IF RGe(final_score, Rat(8, 10)) THEN "strong_match"
                ELSE IF RGe(final_score, Rat(6, 10)) THEN "good_potential"
                ELSE "requires_review",
                {}, 0) >>
  IN { (IF matching_required # {} THEN << Part("key_skills", key, 0) >> ELSE << >>)
       \o (IF matching_nice # {} THEN << Part("bonus_skills", bonus, 0) >> ELSE << >>)
       \o experience_part
       \o (IF missing_required # {} THEN << Part("missing", missing, 0) >> ELSE << >>)
       \o verdict :
         key \in FirstOfSet(matching_required, 3),
         bonus \in FirstOfSet(matching_nice, 2),
         missing \in FirstOfSet(missing_required, 2) }

(***************************************************************************)
(* analyze_skill_gaps                                                      *)
(***************************************************************************)
IsLetter(c) ==
  \/ \E i \in 1..Len(Lowers) : Lowers[i] = c
  \/ \E i \in 1..Len(Uppers) : Uppers[i] = c

\* str.title(): a letter that follows a letter is lower-cased, every other
\* letter is upper-cased
StrTitle(s) ==
  [ i \in 1..Len(s) |->
      IF i > 1 /\ IsLetter(s[i - 1]) THEN LowerChar(s[i]) ELSE UpperChar(s[i]) ]

\* the family of resources suggested for a missing skill, and the name the
\* resources carry: skill.title(), or skill.upper() for a cloud
suggested_resources(skill) ==
  IF skill \in { <<"p","y","t","h","o","n">>, <<"j","a","v","a">>,
                 <<"j","a","v","a","s","c","r","i","p","t">> }
  THEN [ family |-> "language", name |-> StrTitle(skill) ]
  ELSE IF skill \in { <<"a","w","s">>, <<"g","c","p">>, <<"a","z","u","r","e">> }
  THEN [ family |-> "cloud", name |-> StrUpper(skill) ]
  ELSE IF skill \in { <<"d","o","c","k","e","r">>,
                      <<"k","u","b","e","r","n","e","t","e","s">> }
  THEN [ family |-> "container", name |-> StrTitle(skill) ]
  ELSE [ family |-> "generic", name |-> StrTitle(skill) ]

\* the priority taken from the family of the resources instead of the
\* membership in job_requirements
training_recommendation_by_family(skill, job_requirements) ==
  LET priority == IF suggested_resources(skill).family # "generic"
                  THEN "High" ELSE "Medium" IN
  [ skill |-> StrTitle(skill),
    priority |-> priority,
    suggested_resources |-> suggested_resources(skill),
    estimated_time |-> IF priority = "High" THEN "2-3 months" ELSE "1-2 months" ]

\* one entry of training_recommendations; a skill taken from
\* missing_required is always in job_requirements, so priority is "High"
training_recommendation(skill, job_requirements) ==
  LET priority == IF skill \in job_requirements THEN "High" ELSE "Medium" IN
  [ skill |-> StrTitle(skill),
    priority |-> priority,
    suggested_resources |-> suggested_resources(skill),
    estimated_time |-> IF priority = "High" THEN "2-3 months" ELSE "1-2 months" ]

\* iterating candidate_data.get('skills', []), job.get('requirements', []) or
\* job.get('nice_to_have', []) raises TypeError when the value is null; the
\* guard "if job_requirements else 0" keeps the division from raising
analyze_skill_gaps_raises_unguarded(candidate_data, job) ==
  \/ "skills" \in candidate_data.null
  \/ IsNull(job, "requirements") \/ IsNull(job, "nice_to_have")
  \/ NormSet(JobList(job, "requirements")) = {}

analyze_skill_gaps_raises(candidate_data, job) ==
  \/ "skills" \in candidate_data.null
  \/ IsNull(job, "requirements") \/ IsNull(job, "nice_to_have")

\* matched nice-to-have skills counted among matching_skills
analyze_skill_gaps_bonus_counted(candidate_data, job) ==
  LET candidate_skills == NormSet(candidate_data.skills)
      job_requirements == NormSet(JobList(job, "requirements"))
      job_nice_to_have == NormSet(JobList(job, "nice_to_have"))
      missing_required == job_requirements \ candidate_skills
      missing_nice_to_have == job_nice_to_have \ candidate_skills
      matching_skills ==
        candidate_skills \cap (job_requirements \cup job_nice_to_have)
      readiness_score ==
        IF job_requirements # {}
        THEN Rat(Cardinality(matching_skills), Cardinality(job_requirements))
        ELSE RInt(0)
  IN { [ missing_required_skills |-> missing_required,
         missing_nice_to_have |-> missing_nice_to_have,
         matching_skills |-> matching_skills,
         training_recommendations |->
           { training_recommendation(skill, job_requirements) : skill \in shown },
         readiness_score |-> readiness_score,
         skill_match_percentage |-> RMul(readiness_score, RInt(100)) ] :
       shown \in FirstOfSet(missing_required, 3) }

\* the dicts the call may return.  The three skill lists are list(set) in
\* the set's iteration order and are kept as the sets; the recommendations
\* are those of any three missing skills.
analyze_skill_gaps(candidate_data, job) ==
  LET candidate_skills == NormSet(candidate_data.skills)
      job_requirements == NormSet(JobList(job, "requirements"))
      job_nice_to_have == NormSet(JobList(job, "nice_to_have"))
      missing_required == job_requirements \ candidate_skills
      missing_nice_to_have == job_nice_to_have \ candidate_skills
      matching_skills == candidate_skills \cap job_requirements
      readiness_score ==
        IF job_requirements # {}
        THEN Rat(Cardinality(matching_skills), Cardinality(job_requirements))
        ELSE RInt(0)
  IN { [ missing_required_skills |-> missing_required,
         missing_nice_to_have |-> missing_nice_to_have,
         matching_skills |-> matching_skills,
         training_recommendations |->
           { training_recommendation(skill, job_requirements) : skill \in shown },
         readiness_score |-> readiness_score,
         skill_match_percentage |-> RMul(readiness_score, RInt(100)) ] :
       shown \in FirstOfSet(missing_required, 3) }

(***************************************************************************)
(* The libraries behind the index                                          *)
(*                                                                         *)
(* SentenceTransformer.encode(normalize_embeddings=True) is a fixed map    *)
(* from a text to a unit vector; the model gives every text of its inputs  *)
(* a vector of length 5 with integer coordinates, so that an inner product *)
(* is the exact rational dot/25 in [-1, 1].                                *)
(* TfidfVectorizer is modelled with unigram tokens of two or more word     *)
(* characters and weight 1 for a term that is present: the cosine of two   *)
(* rows is then overlap / sqrt(|a| * |b|), kept to two decimals.           *)
(***************************************************************************)
\* the encoder's vector for a job text, which starts with the job's title
JobTextVec ==
  [ t \in { "Backend Engineer", "Frontend Engineer", "Generalist",
            "Cloud Engineer", "Data Engineer", "Intern",
            "Full Stack Developer", "Support Agent", "Principal Architect" } |->
      CASE t = "Backend Engineer" -> << 5, 0 >>
        [] t = "Frontend Engineer" -> << 3, 4 >>
        [] t = "Generalist" -> << 0, 5 >>
        [] t = "Cloud Engineer" -> << 4, 3 >>
        [] t = "Data Engineer" -> << 4, -3 >>
        [] t = "Intern" -> << -3, 4 >>
        [] t = "Full Stack Developer" -> << 3, -4 >>
        [] t = "Support Agent" -> << 3, 4 >>
        [] t = "Principal Architect" -> << 4, 3 >> ]

\* the encoder's vector for a candidate text (skills twice, then the resume)
CandidateTextVec ==
  [ t \in { "", "python developer", "frontend developer", "chef" } |->
      CASE t = "" -> << -3, 4 >>
        [] t = "python developer" -> << 4, 3 >>
        [] t = "frontend developer" -> << 3, 4 >>
        [] t = "chef" -> << -4, -3 >> ]

\* model.encode(job_texts): one vector per job
EncodeJobs(jobs) == [ i \in 1..Len(jobs) |-> JobTextVec[jobs[i].title] ]

\* ' '.join(candidate_data.get('skills', [])) raises TypeError on null
candidate_text_raises(candidate_data) == "skills" \in candidate_data.null

\* create_candidate_embedding
create_candidate_embedding(candidate_data) ==
  CandidateTextVec[candidate_data.resume_text]

InnerProduct(u, v) == Rat(u[1] * v[1] + u[2] * v[2], 25)

\* what IndexFlatIP.search reports for a slot it cannot fill (k > ntotal):
\* label -1 and the lowest float, which stands below every inner product
FaissNoScore == Rat(-1000, 1)

Hit(score, label) == [ score |-> score, label |-> label ]

\* the labels of an index in the order search returns them: inner product
\* descending, the lower label first among equals
RECURSIVE SearchOrder(_, _, _)
SearchOrder(index, query, left) ==
  IF left = {} THEN << >>
  ELSE LET best == CHOOSE i \in left : \A j \in left :
                     \/ RGt(InnerProduct(index[i + 1], query),
                            InnerProduct(index[j + 1], query))
                     \/ /\ InnerProduct(index[i + 1], query)
                             = InnerProduct(index[j + 1], query)
                        /\ i <= j
       IN << Hit(InnerProduct(index[best + 1], query), best) >>
            \o SearchOrder(index, query, left \ { best })

\* faiss_index.search(query, k) for k >= 1: k hits, the best first, padded
\* with label -1 when the index holds fewer than k vectors
FaissSearch(index, query, k) ==
  LET found == SearchOrder(index, query, 0..(Len(index) - 1)) IN
  [ i \in 1..k |-> IF i <= Len(found) THEN found[i] ELSE Hit(FaissNoScore, -1) ]

WordChars == Range(Lowers) \cup Range(Uppers) \cup Range(Digits) \cup { "_" }

\* the tokens of a lower-cased text: maximal runs of word characters that
\* are at least two characters long (token_pattern r"\b\w\w+\b")
Tokenize(text) ==
  LET s == StrLower(text) \o << >>
      IsWord(i) == i >= 1 /\ i <= Len(s) /\ s[i] \in WordChars
      starts == { i \in 1..Len(s) : IsWord(i) /\ ~ IsWord(i - 1) }
      EndOf(i) == CHOOSE e \in i..Len(s) :
                    ~ IsWord(e + 1) /\ \A k \in i..e : IsWord(k)
  IN { SubSeq(s, i, EndOf(i)) : i \in { k \in starts : IsWord(k + 1) } }

CharRank(c) ==
  IF IsDigit(c) THEN DigitVal(c)
  ELSE IF c = "_" THEN 10
  ELSE 10 + (CHOOSE i \in 1..Len(Lowers) : Lowers[i] = c)

\* a < b for two tokens, in the order sorted() gives the vocabulary
RECURSIVE TokenLess(_, _)
TokenLess(a, b) ==
  IF b = << >> THEN FALSE
  ELSE IF a = << >> THEN TRUE
  ELSE IF Head(a) = Head(b) THEN TokenLess(Tail(a), Tail(b))
  ELSE CharRank(Head(a)) < CharRank(Head(b))

RECURSIVE SortTokens(_)
SortTokens(tokens) ==
  IF tokens = {} THEN << >>
  ELSE LET first == CHOOSE t \in tokens :
                      \A u \in tokens \ { t } : TokenLess(t, u)
       IN << first >> \o SortTokens(tokens \ { first })

\* the columns a text fills under a fitted vocabulary
TfidfTransform(vocabulary, text) ==
  LET tokens == Tokenize(text) IN
  { i \in 1..Len(vocabulary) : vocabulary[i] \in tokens }

\* the vocabulary fit_transform learns; empty when no text has a token
TfidfVocabulary(texts) ==
  SortTokens(UNION { Tokenize(texts[i]) : i \in 1..Len(texts) })

\* the largest r with r * r <= n, for n <= 10000
Isqrt(n) == CHOOSE r \in 0..100 : r * r <= n /\ (r + 1) * (r + 1) > n

\* cosine_similarity of two rows of equal width, to two decimals
CosineSimilarity(a, b) ==
  IF a = {} \/ b = {} THEN RInt(0)
  ELSE Rat(Isqrt((10000 * Cardinality(a \cap b) * Cardinality(a \cap b))
                   \div (Cardinality(a) * Cardinality(b))),
           100)

(***************************************************************************)
(* The matcher's shared fields                                             *)
(*                                                                         *)
(* A field that may be None is a sequence of length 0 (None) or 1.         *)
(*   job_embeddings, faiss_index : << vectors >>                           *)
(*   tfidf_vectorizer : << [fitted, vocabulary] >>                         *)
(*   job_tfidf_vectors : << [width, rows] >>, a row the columns it fills   *)
(***************************************************************************)
Fields(jd, je, fi, tv, jt) ==
  [ jobs_data |-> jd, job_embeddings |-> je, faiss_index |-> fi,
    tfidf_vectorizer |-> tv, job_tfidf_vectors |-> jt ]

\* the fields as __init__ sets them before load_jobs
InitialFields == Fields(<< >>, << >>, << >>, << >>, << >>)

CurrentFields ==
  Fields(jobs_data, job_embeddings, faiss_index, tfidf_vectorizer,
         job_tfidf_vectors)

(***************************************************************************)
(* load_jobs                                                               *)
(***************************************************************************)
\* building job_text and skill_text raises KeyError for a job without
\* title, summary or requirements and TypeError when requirements or
\* nice_to_have is null
job_text_raises(job) ==
  \/ ~ HasKey(job, "title") \/ ~ HasKey(job, "summary")
  \/ ~ HasKey(job, "requirements")
  \/ IsNull(job, "requirements") \/ IsNull(job, "nice_to_have")

\* skill_text.lower()
job_skill_text(job) ==
  StrLower(StrJoin(job.requirements) \o << " " >>
           \o StrJoin(JobList(job, "nice_to_have")))

JobSkillTexts(jobs) == [ i \in 1..Len(jobs) |-> job_skill_text(jobs[i]) ]

UnfittedVectorizer == << [ fitted |-> FALSE, vocabulary |-> << >> ] >>
FittedVectorizer(texts) ==
  << [ fitted |-> TRUE, vocabulary |-> TfidfVocabulary(texts) ] >>

\* fit_transform's matrix: one row per text
TfidfRows(vocabulary, texts) ==
  << [ width |-> Len(vocabulary),
       rows |-> [ i \in 1..Len(texts) |->
                    TfidfTransform(vocabulary, texts[i]) ] ] >>

TfidfMatrix(texts) == TfidfRows(TfidfVocabulary(texts), texts)

\* a rebuild that adds the vectors to the index it already holds instead of
\* creating a new IndexFlatIP
load_jobs_keeps_index(f, file) ==
  IF ~ file.readable
  THEN [ fields |-> f, raised |-> TRUE ]
  ELSE
    LET f1 == [ f EXCEPT !.jobs_data = file.jobs ] IN
    IF \E i \in 1..Len(file.jobs) : job_text_raises(file.jobs[i])
    THEN [ fields |-> f1, raised |-> TRUE ]
    ELSE
      LET texts == JobSkillTexts(file.jobs)
          f2 == [ f1 EXCEPT !.job_embeddings = << EncodeJobs(file.jobs) >>,
                            !.tfidf_vectorizer = UnfittedVectorizer ]
          held == IF f.faiss_index = << >> THEN << >> ELSE f.faiss_index[1]
          fitted == FittedVectorizer(texts)
      IN IF fitted[1].vocabulary = << >>
         THEN [ fields |-> f2, raised |-> TRUE ]
         ELSE [ fields |-> [ f2 EXCEPT
                               !.tfidf_vectorizer = fitted,
                               !.job_tfidf_vectors =
                                 TfidfRows(fitted[1].vocabulary, texts),
                               !.faiss_index = << held \o EncodeJobs(file.jobs) >> ],
                raised |-> FALSE ]

\* load_jobs run to its end on fields f: the fields it leaves and whether
\* it raised.  Each field is assigned where the code assigns it, so a raise
\* leaves the fields assigned so far.
load_jobs(f, file) ==
  IF ~ file.readable
  THEN [ fields |-> f, raised |-> TRUE ]
  ELSE
    LET f1 == [ f EXCEPT !.jobs_data = file.jobs ] IN
    IF \E i \in 1..Len(file.jobs) : job_text_raises(file.jobs[i])
    THEN [ fields |-> f1, raised |-> TRUE ]
    ELSE
      LET texts == JobSkillTexts(file.jobs)
          f2 == [ f1 EXCEPT !.job_embeddings = << EncodeJobs(file.jobs) >>,
                            !.tfidf_vectorizer = UnfittedVectorizer ]
          fitted == FittedVectorizer(texts)
      IN IF fitted[1].vocabulary = << >>
         THEN [ fields |-> f2, raised |-> TRUE ]
         ELSE [ fields |-> [ f2 EXCEPT
                               !.tfidf_vectorizer = fitted,
                               !.job_tfidf_vectors =
                                 TfidfRows(fitted[1].vocabulary, texts),
                               !.faiss_index = << EncodeJobs(file.jobs) >> ],
                raised |-> FALSE ]

(***************************************************************************)
(* match_candidate_to_jobs                                                 *)
(***************************************************************************)
\* semantic_score = max(0.0, float(semantic_score))
semantic_floor(raw) == RMax(RInt(0), raw)

\* the semantic score weighted 0.5 and the skill score 0.2
WeightedSum_semantic_half(semantic, skill, experience, tfidf) ==
  RAdd(RAdd(RMul(semantic, Rat(5, 10)), RMul(skill, Rat(2, 10))),
       RAdd(RMul(experience, Rat(2, 10)), RMul(tfidf, Rat(1, 10))))

\* the weights of the semantic and the skill score exchanged
WeightedSum_skill_third(semantic, skill, experience, tfidf) ==
  RAdd(RAdd(RMul(semantic, Rat(4, 10)), RMul(skill, Rat(3, 10))),
       RAdd(RMul(experience, Rat(2, 10)), RMul(tfidf, Rat(1, 10))))

WeightedSum(semantic, skill, experience, tfidf) ==
  RAdd(RAdd(RMul(semantic, Rat(3, 10)), RMul(skill, Rat(4, 10))),
       RAdd(RMul(experience, Rat(2, 10)), RMul(tfidf, Rat(1, 10))))

\* the raw inner product weighted as it comes, with no floor and no clamp
fused_final_score_leaky(raw_semantic, skill, experience, tfidf) ==
  WeightedSum(raw_semantic, skill, experience, tfidf)

\* final_score from the raw inner product and the three other sub-scores
fused_final_score(raw_semantic, skill, experience, tfidf) ==
  RMax(RInt(0),
       RMin(RInt(1),
            WeightedSum(semantic_floor(raw_semantic), skill, experience, tfidf)))

\* job = self.jobs_data[job_idx] raises IndexError
job_lookup_raises(jobs, label) == ~ PyInRange(jobs, label)

\* job_tfidf = self.job_tfidf_vectors[job_idx] raises, or cosine_similarity
\* does on rows of another width
row_lookup_raises(matrix, candidate_tfidf, label) ==
  \/ matrix = << >>
  \/ ~ PyInRange(matrix[1].rows, label)
  \/ matrix[1].width # candidate_tfidf.width

\* the rest of the loop body raises: a division by zero, a null list, a
\* missing key
score_raises(candidate_data, job) ==
  \/ experience_score_raises(candidate_data.experience_years,
                             JobList(job, "experience_years"))
  \/ explanation_raises(job)
  \/ ~ HasKey(job, "job_id") \/ ~ HasKey(job, "title")
  \/ ~ HasKey(job, "department")

\* the match dicts one pass of the loop may append (one per explanation),
\* for the job and the TF-IDF row it read
score_match(candidate_data, raw_semantic, raw_tfidf, job) ==
  LET semantic_score == semantic_floor(raw_semantic)
      skill_score ==
        calculate_skill_match_score(candidate_data.skills,
                                    JobList(job, "requirements"),
                                    JobList(job, "nice_to_have"))
      experience_score ==
        calculate_experience_match_score(candidate_data.experience_years,
                                         JobList(job, "experience_years"))
      tfidf_score == RMax(RInt(0), raw_tfidf)
      final_score ==
        fused_final_score(raw_semantic, skill_score, experience_score, tfidf_score)
  IN { [ job_id |-> job.job_id,
         title |-> job.title,
         department |-> job.department,
         similarity_score |-> RMul(final_score, RInt(100)),
         confidence_band |-> get_confidence_band(final_score),
         explanation |-> e,
         job_details |-> job,
         score_breakdown |->
           [ semantic_score |-> semantic_score,
             skill_score |-> skill_score,
             experience_score |-> experience_score,
             tfidf_score |-> tfidf_score,
             final_score |-> final_score ] ] :
       e \in generate_enhanced_explanation(candidate_data, job, final_score,
                                           skill_score, experience_score) }

\* the pass for one hit: the score the search gave and the cosine of the
\* candidate's TF-IDF row with the job's
score_entry(candidate_data, candidate_tfidf, hit, job, job_tfidf) ==
  score_match(candidate_data, hit.score,
              CosineSimilarity(candidate_tfidf.row, job_tfidf), job)

entry_raises(f, candidate_data, candidate_tfidf, hit) ==
  \/ job_lookup_raises(f.jobs_data, hit.label)
  \/ row_lookup_raises(f.job_tfidf_vectors, candidate_tfidf, hit.label)
  \/ score_raises(candidate_data, PyIndex(f.jobs_data, hit.label))

entry_matches(f, candidate_data, candidate_tfidf, hit) ==
  score_entry(candidate_data, candidate_tfidf, hit,
              PyIndex(f.jobs_data, hit.label),
              PyIndex(f.job_tfidf_vectors[1].rows, hit.label))

\* the lists the loop may build from a sequence of hits
RECURSIVE MatchLists(_, _, _, _)
MatchLists(f, candidate_data, candidate_tfidf, hits) ==
  IF hits = << >> THEN { << >> }
  ELSE { << m >> \o rest :
           m \in entry_matches(f, candidate_data, candidate_tfidf, Head(hits)),
           rest \in MatchLists(f, candidate_data, candidate_tfidf, Tail(hits)) }

\* m inserted into a list sorted by similarity_score descending, after the
\* entries of equal score (list.sort is stable, also with reverse=True)
RECURSIVE InsertSorted(_, _)
InsertSorted(sorted, m) ==
  IF sorted = << >> THEN << m >>
  ELSE IF RLt(Head(sorted).similarity_score, m.similarity_score)
       THEN << m >> \o sorted
       ELSE << Head(sorted) >> \o InsertSorted(Tail(sorted), m)

\* matches.sort(...) left out
SortMatches_unsorted(matches) == matches

RECURSIVE SortMatches(_)
SortMatches(matches) ==
  IF matches = << >> THEN << >>
  ELSE InsertSorted(SortMatches(SubSeq(matches, 1, Len(matches) - 1)),
                    matches[Len(matches)])

\* every job scored is returned: the [:top_k] is left out
return_top_k_all(matches, top_k) == matches

\* matches[:top_k]
return_top_k(matches, top_k) == PyPrefix(matches, top_k)

\* the whole index is searched whatever top_k is
shortlist_size_all(top_k, n_jobs) == n_jobs

\* k = min(top_k * 2, len(self.jobs_data))
shortlist_size(top_k, n_jobs) == Min2(top_k * 2, n_jobs)

\* the candidate's skills as a TF-IDF row
CandidateTfidf(vectorizer, candidate_data) ==
  [ width |-> Len(vectorizer.vocabulary),
    row |-> TfidfTransform(vectorizer.vocabulary,
                           StrLower(StrJoin(candidate_data.skills))) ]

\* the exception one pass of the loop raises, in the order of the loop's
\* statements, or "none"
entry_exception(f, candidate_data, candidate_tfidf, hit) ==
  IF job_lookup_raises(f.jobs_data, hit.label) THEN "IndexError"
  ELSE LET job == PyIndex(f.jobs_data, hit.label) IN
    IF experience_score_raises(candidate_data.experience_years,
                               JobList(job, "experience_years"))
    THEN "ZeroDivisionError"
    ELSE IF f.job_tfidf_vectors = << >> THEN "TypeError"
    ELSE IF ~ PyInRange(f.job_tfidf_vectors[1].rows, hit.label) THEN "IndexError"
    ELSE IF f.job_tfidf_vectors[1].width # candidate_tfidf.width THEN "ValueError"
    ELSE IF explanation_raises(job) THEN "TypeError"
    ELSE IF score_raises(candidate_data, job) THEN "KeyError"
    ELSE "none"

\* the exception the body of the try statement raises, or "none"
match_body_exception(f, candidate_data, top_k) ==
  IF f.faiss_index = << >> \/ Len(f.jobs_data) = 0 THEN "none"
  ELSE IF candidate_text_raises(candidate_data) THEN "TypeError"
  ELSE
    LET k == shortlist_size(top_k, Len(f.jobs_data)) IN
    \* IndexFlatIP.search asserts k > 0
    IF k <= 0 THEN "AssertionError"
    ELSE IF f.tfidf_vectorizer = << >> THEN "AttributeError"
    ELSE IF ~ f.tfidf_vectorizer[1].fitted THEN "NotFittedError"
    ELSE
      LET hits == FaissSearch(f.faiss_index[1],
                              create_candidate_embedding(candidate_data), k)
          candidate_tfidf == CandidateTfidf(f.tfidf_vectorizer[1], candidate_data)
          failing == { i \in 1..k :
                         entry_raises(f, candidate_data, candidate_tfidf, hits[i]) }
      IN IF failing = {} THEN "none"
         ELSE entry_exception(f, candidate_data, candidate_tfidf,
                              hits[CHOOSE i \in failing : \A j \in failing : i <= j])

\* the lists the body of the try statement may return when it does not raise
match_body_returns(f, candidate_data, top_k) ==
  IF f.faiss_index = << >> \/ Len(f.jobs_data) = 0 THEN { << >> }
  ELSE
    LET k == shortlist_size(top_k, Len(f.jobs_data))
        hits == FaissSearch(f.faiss_index[1],
                            create_candidate_embedding(candidate_data), k)
        candidate_tfidf == CandidateTfidf(f.tfidf_vectorizer[1], candidate_data)
    IN { return_top_k(SortMatches(matches), top_k) :
           matches \in MatchLists(f, candidate_data, candidate_tfidf, hits) }

\* the classes the body raises; all derive from Exception
ExceptionSubclasses ==
  { "AssertionError", "AttributeError", "IndexError", "KeyError",
    "NotFittedError", "TypeError", "ValueError", "ZeroDivisionError" }

\* a handler that names the lookup errors only
except_catches_lookup_errors(kind) == kind \in { "IndexError", "KeyError" }

\* except Exception as e
except_catches(kind) == kind \in ExceptionSubclasses

\* a method that checks the index before its try statement and raises
match_outcomes_guard_raises(f, candidate_data, top_k) ==
  IF f.faiss_index = << >> \/ Len(f.jobs_data) = 0
  THEN { [ raised |-> "RuntimeError", value |-> << >> ] }
  ELSE
    LET e == match_body_exception(f, candidate_data, top_k) IN
    IF e = "none"
    THEN { [ raised |-> "none", value |-> v ] :
             v \in match_body_returns(f, candidate_data, top_k) }
    ELSE { [ raised |-> IF except_catches(e) THEN "none" ELSE e,
             value |-> << >> ] }

\* what a call gives its caller: the list returned (value), or the exception
\* that leaves the call (raised)
match_outcomes(f, candidate_data, top_k) ==
  LET e == match_body_exception(f, candidate_data, top_k) IN
  IF e = "none"
  THEN { [ raised |-> "none", value |-> v ] :
           v \in match_body_returns(f, candidate_data, top_k) }
  ELSE IF except_catches(e)
  THEN { [ raised |-> "none", value |-> << >> ] }
  ELSE { [ raised |-> e, value |-> << >> ] }

\* the lists match_candidate_to_jobs may return on fields f
match_candidate_to_jobs(f, candidate_data, top_k) ==
  { outcome.value :
      outcome \in { o \in match_outcomes(f, candidate_data, top_k) :
                      o.raised = "none" } }

(***************************************************************************)
(* normalize_skill_name as a function of its input: SpecNorm               *)
(***************************************************************************)
SeqsUpTo(S, n) == UNION { [1..k -> S] : k \in 0..n }

\* lower-case, trimmed skill strings: every key and value of the table, and
\* strings that are neither
NormWords ==
  { <<"j","s">>,
    <<"t","s">>,
    <<"k","8","s">>,
    <<"t","f">>,
    <<"m","l">>,
    <<"a","i">>,
    <<"d","l">>,
    <<"c","v">>,
    <<"n","l","p">>,
    <<"a","w","s"," ","e","c","2">>,
    <<"a","w","s"," ","s","3">>,
    <<"g","c","p"," ","b","i","g","q","u","e","r","y">>,
    <<"r","e","a","c","t",".","j","s">>,
    <<"n","o","d","e",".","j","s">>,
    <<"v","u","e",".","j","s">>,
    <<"j","a","v","a","s","c","r","i","p","t">>,
    <<"t","y","p","e","s","c","r","i","p","t">>,
    <<"k","u","b","e","r","n","e","t","e","s">>,
    <<"t","e","n","s","o","r","f","l","o","w">>,
    <<"m","a","c","h","i","n","e"," ","l","e","a","r","n","i","n","g">>,
    <<"a","r","t","i","f","i","c","i","a","l"," ","i","n","t","e","l","l","i","g","e","n","c","e">>,
    <<"d","e","e","p"," ","l","e","a","r","n","i","n","g">>,
    <<"c","o","m","p","u","t","e","r"," ","v","i","s","i","o","n">>,
    <<"n","a","t","u","r","a","l"," ","l","a","n","g","u","a","g","e"," ","p","r","o","c","e","s","s","i","n","g">>,
    <<"a","w","s">>,
    <<"g","c","p">>,
    <<"r","e","a","c","t">>,
    <<"n","o","d","e","j","s">>,
    <<"v","u","e">>,
    <<"p","y","t","h","o","n">>,
    <<"d","j","a","n","g","o">>,
    <<"c","o","o","k","i","n","g">>,
    <<"c","+","+">>,
    <<"a","w","s"," "," ","e","c","2">>,
    <<"j"," ","s">>,
    <<>> }

PadChars == { " ", "\t" }
NormAlphabet == { "j", "s", "J", "S", "t", "F", " ", "." }
Casings == { "lower", "upper", "title" }

ApplyCase(w, c) ==
  IF c = "upper" THEN StrUpper(w)
  ELSE IF c = "title" /\ w # << >>
       THEN << UpperChar(Head(w)) >> \o Tail(w)
       ELSE w

NormInit ==
  /\ n_out = << >> /\ n_out2 = << >>
  /\ \/ \E w \in NormWords, c \in Casings,
           l \in SeqsUpTo(PadChars, MaxPad), r \in SeqsUpTo(PadChars, MaxPad) :
          /\ n_word = << w >>
          /\ n_in = l \o ApplyCase(w, c) \o r
     \/ /\ n_word = << >>
        /\ n_in \in SeqsUpTo(NormAlphabet, MaxLen)

NormIdle ==
  n_word = << >> /\ n_in = << >> /\ n_out = << >> /\ n_out2 = << >>

\* normalize_skill_name(s)
NormalizeOnce ==
  /\ n_out = << >>
  /\ n_out' = << normalize_skill_name(n_in) >>
  /\ UNCHANGED << n_word, n_in, n_out2 >>

\* normalize_skill_name(normalize_skill_name(s))
NormalizeTwice ==
  /\ n_out # << >> /\ n_out2 = << >>
  /\ n_out2' = << normalize_skill_name(n_out[1]) >>
  /\ UNCHANGED << n_word, n_in, n_out >>

(***************************************************************************)
(* get_confidence_band as a function of its input: SpecBand                *)
(***************************************************************************)
\* scores below 0 and above 1 that are also classified, in steps of 1/BandGrid
BandMargin == 2

BandScores == { Rat(k, BandGrid) : k \in (0 - BandMargin)..(BandGrid + BandMargin) }

BandInit ==
  /\ b_score1 \in BandScores /\ b_score2 \in BandScores
  /\ b_band1 = None /\ b_band2 = None

BandIdle ==
  b_score1 = RInt(0) /\ b_score2 = RInt(0) /\ b_band1 = None /\ b_band2 = None

Classify ==
  /\ b_band1 = None
  /\ b_band1' = get_confidence_band(b_score1)
  /\ b_band2' = get_confidence_band(b_score2)
  /\ UNCHANGED << b_score1, b_score2 >>


(***************************************************************************)
(* One call of a method that reads no field of the matcher                 *)
(***************************************************************************)
CallIdle == c_fn = "none" /\ c_args = << >> /\ c_ret = << >>

(***************************************************************************)
(* The catalog, the candidates and the requests of the model               *)
(***************************************************************************)
\* most jobs the catalog holds
MaxJobs == 3
\* largest top_k requested; the smallest is -1
MaxTopK == 2

Job(id, title, department, requirements, nice, experience, absent, null) ==
  [ job_id |-> id, title |-> title, department |-> department,
    summary |-> title, requirements |-> requirements, nice_to_have |-> nice,
    experience_years |-> experience, absent |-> absent, null |-> null ]

JobBackend ==
  Job("job_001", "Backend Engineer", "Engineering",
      << <<"P","y","t","h","o","n">>, <<"D","j","a","n","g","o">>,
         <<"A","W","S">> >>,
      << <<"D","o","c","k","e","r">> >>, << "3", "-", "6" >>, {}, {})

JobFrontend ==
  Job("job_002", "Frontend Engineer", "Engineering",
      << <<"J","S">>, <<"R","e","a","c","t",".","j","s">> >>,
      << >>, << "5", "+", " ", "y", "e", "a", "r", "s" >>, {}, {})

\* posted with no requirements and no experience requirement
JobGeneralist(id) ==
  Job(id, "Generalist", "Operations", << >>, << >>, << >>, {}, {})

\* posted with "nice_to_have": null, which JobData allows
JobData_null_nice(id) ==
  Job(id, "Data Engineer", "Data",
      << <<"S","Q","L">>, <<"S","p","a","r","k">> >>, << >>,
      << "3", "+" >>, {}, { "nice_to_have" })

JobCloud(id) ==
  Job(id, "Cloud Engineer", "Platform",
      << <<"A","W","S"," ","E","C","2">>, <<"K","8","s">> >>,
      << <<"P","y","t","h","o","n">> >>, << "2", "-", "4" >>, {}, {})

\* the records the catalog file holds at start-up; the third is what an
\* earlier run of create_job left in the file
FileJobs == { JobBackend, JobFrontend, JobData_null_nice("job_003") }

\* job_id = f"job_{str(uuid.uuid4())[:8]}": an id no earlier job has, here
\* the one of the job's position in jobs_data
NewJobIds == << "job_u1", "job_u2", "job_u3", "job_u4", "job_u5" >>

\* the jobs POST /api/jobs makes of the bodies it receives, for a catalog
\* of n jobs
PostedJobs(n) ==
  LET id == NewJobIds[n + 1] IN
  { JobGeneralist(id), JobData_null_nice(id), JobCloud(id) }

Candidate(name, skills, years, resume) ==
  [ name |-> name, skills |-> skills, experience_years |-> years,
    resume_text |-> resume, null |-> {} ]

CandidateEmpty == Candidate("No Skills Candidate", << >>, 0, "")
CandidatePython ==
  Candidate("Python Developer",
            << <<"P","y","t","h","o","n">>, <<"A","W","S">> >>, 5,
            "python developer")
CandidateFrontend ==
  Candidate("Frontend Developer",
            << <<" ","j","s"," ">>, <<"R","e","a","c","t",".","j","s">>,
               <<"D","o","c","k","e","r">> >>, 10, "frontend developer")
CandidateChef ==
  Candidate("Mismatched Skills Candidate",
            << <<"C","o","o","k","i","n","g">> >>, 10, "chef")

Candidates == { CandidateEmpty, CandidatePython, CandidateFrontend, CandidateChef }
TopKs == (0 - 1)..MaxTopK

File(readable, jobs) == [ readable |-> readable, jobs |-> jobs ]

(***************************************************************************)
(* The serving process: Spec                                               *)
(***************************************************************************)
ThreadsIdle ==
  /\ lpc = "idle" /\ l_old = << >> /\ mpc = "idle" /\ m_cand = << >>
  /\ m_top_k = 0 /\ m_k = 0 /\ m_hits = << >> /\ m_tfidf = << >>
  /\ m_job = << >> /\ m_matches = << >>

MatcherIdle ==
  /\ catalog_file = File(TRUE, << >>)
  /\ jobs_data = << >> /\ job_embeddings = << >> /\ faiss_index = << >>
  /\ tfidf_vectorizer = << >> /\ job_tfidf_vectors = << >>
  /\ phase = "off" /\ request = << >> /\ result = << >> /\ last_load = "none"
  /\ propagated = "none"

SetFields(f) ==
  /\ jobs_data' = f.jobs_data
  /\ job_embeddings' = f.job_embeddings
  /\ faiss_index' = f.faiss_index
  /\ tfidf_vectorizer' = f.tfidf_vectorizer
  /\ job_tfidf_vectors' = f.job_tfidf_vectors

\* before the module is imported: the matcher's fields as __init__ sets
\* them, and whatever catalog file is on disk
MatcherInit ==
  /\ catalog_file \in
       { File(FALSE, << >>) }
       \cup { File(TRUE, jobs) : jobs \in SeqsUpTo(FileJobs, MaxJobs) }
  /\ jobs_data = << >> /\ job_embeddings = << >> /\ faiss_index = << >>
  /\ tfidf_vectorizer = << >> /\ job_tfidf_vectors = << >>
  /\ phase = "start" /\ request = << >> /\ result = << >> /\ last_load = "none"
  /\ propagated = "none"

\* improved_talent_matcher = ImprovedTalentMatcher(): a raise of load_jobs
\* ends the import, and the process with it
Construct ==
  /\ phase = "start"
  /\ LET r == load_jobs(InitialFields, catalog_file) IN
     /\ SetFields(r.fields)
     /\ phase' = IF r.raised THEN "dead" ELSE "serving"
     /\ last_load' = IF r.raised THEN "raised" ELSE "ok"
  /\ UNCHANGED << catalog_file, request, result, propagated >>

\* POST /api/jobs.  The response of an earlier request is no longer held.
create_job(job, write_ok, file_left) ==
  /\ phase = "serving"
  /\ Len(jobs_data) < MaxJobs
  /\ LET appended == Append(jobs_data, job) IN
     IF ~ write_ok
     THEN \* open(..., 'w') or json.dump raised: HTTP 500, load_jobs not called
          /\ jobs_data' = appended
          /\ catalog_file' = file_left
          /\ UNCHANGED << job_embeddings, faiss_index, tfidf_vectorizer,
                          job_tfidf_vectors, last_load >>
     ELSE LET written == File(TRUE, appended)
              r == load_jobs([ CurrentFields EXCEPT !.jobs_data = appended ],
                             written)
          IN /\ catalog_file' = written
             /\ SetFields(r.fields)
             /\ last_load' = IF r.raised THEN "raised" ELSE "ok"
  /\ request' = << >> /\ result' = << >> /\ propagated' = "none"
  /\ UNCHANGED phase

CreateJob ==
  \E job \in PostedJobs(Len(jobs_data)), write_ok \in BOOLEAN :
    \E file_left \in { catalog_file, File(FALSE, << >>) } :
      /\ (write_ok => file_left = catalog_file)
      /\ create_job(job, write_ok, file_left)

\* a match request served to its end; its response is held in result until
\* it is handed to the caller
MatchRequest ==
  /\ phase = "serving"
  /\ request = << >>
  /\ \E candidate_data \in Candidates, top_k \in TopKs :
       /\ request' = << [ candidate |-> candidate_data, top_k |-> top_k ] >>
       /\ \E outcome \in match_outcomes(CurrentFields, candidate_data, top_k) :
            result' = outcome.value /\ propagated' = outcome.raised
  /\ UNCHANGED << matcher_vars, phase, last_load >>

\* the response leaves the process
Respond ==
  /\ request # << >>
  /\ request' = << >> /\ result' = << >> /\ propagated' = "none"
  /\ UNCHANGED << matcher_vars, phase, last_load >>

Init == MatcherInit /\ ThreadsIdle /\ NormIdle /\ BandIdle /\ CallIdle

Next ==
  \/ Construct /\ UNCHANGED << thread_vars, norm_vars, band_vars, call_vars >>
  \/ CreateJob /\ UNCHANGED << thread_vars, norm_vars, band_vars, call_vars >>
  \/ MatchRequest /\ UNCHANGED << thread_vars, norm_vars, band_vars, call_vars >>
  \/ Respond /\ UNCHANGED << thread_vars, norm_vars, band_vars, call_vars >>

Spec == Init /\ [][Next]_vars

SpecNormInit == NormInit /\ BandIdle /\ CallIdle /\ MatcherIdle /\ ThreadsIdle
SpecNormNext ==
  \/ NormalizeOnce /\ UNCHANGED << matcher_vars, serve_vars, thread_vars, band_vars, call_vars >>
  \/ NormalizeTwice /\ UNCHANGED << matcher_vars, serve_vars, thread_vars, band_vars, call_vars >>
SpecNorm == SpecNormInit /\ [][SpecNormNext]_vars

SpecBandInit == BandInit /\ NormIdle /\ CallIdle /\ MatcherIdle /\ ThreadsIdle
SpecBandNext ==
  Classify /\ UNCHANGED << matcher_vars, serve_vars, thread_vars, norm_vars, call_vars >>
SpecBand == SpecBandInit /\ [][SpecBandNext]_vars


(***************************************************************************)
(* analyze_skill_gaps as a function of its arguments: SpecGaps             *)
(***************************************************************************)
\* job_007 of ADDITIONAL_JOBS
JobFullStack ==
  Job("job_007", "Full Stack Developer", "Product Engineering",
      << <<"J","a","v","a","S","c","r","i","p","t">>, <<"R","e","a","c","t">>,
         <<"N","o","d","e",".","j","s">>, <<"M","o","n","g","o","D","B">>,
         <<"E","x","p","r","e","s","s">> >>,
      << <<"T","y","p","e","S","c","r","i","p","t">>,
         <<"G","r","a","p","h","Q","L">>, <<"A","W","S">>,
         <<"D","o","c","k","e","r">>, <<"T","e","s","t","i","n","g">> >>,
      << "3", "-", "6" >>, {}, {})

\* a record of the catalog file that carries no "requirements" key
JobNoRequirementsKey ==
  Job("job_x1", "Intern", "Operations", << >>, << >>, << >>,
      { "requirements" }, {})

CandidateFullStack ==
  Candidate("Full Stack Developer",
            << <<"J","S">>, <<"R","e","a","c","t">>, <<"A","W","S">> >>, 4,
            "frontend developer")
CandidateCloud ==
  Candidate("Cloud Engineer",
            << <<"a","w","s"," ","e","c","2">>, <<"K","8","S">>,
               <<"P","Y","T","H","O","N">> >>, 3, "python developer")

GapCandidates == Candidates \cup { CandidateFullStack, CandidateCloud }
GapJobs ==
  { JobBackend, JobFrontend, JobGeneralist("job_g1"), JobCloud("job_c1"),
    JobData_null_nice("job_003"), JobFullStack, JobNoRequirementsKey }

GapsInit ==
  /\ c_fn = "analyze_skill_gaps"
  /\ c_args \in [ candidate_data : GapCandidates, job : GapJobs ]
  /\ c_ret = << >>

\* analyze_skill_gaps(candidate_data, job): what it returns, or that it raised
AnalyzeSkillGaps ==
  /\ c_fn = "analyze_skill_gaps" /\ c_ret = << >>
  /\ IF analyze_skill_gaps_raises(c_args.candidate_data, c_args.job)
     THEN c_ret' = << [ raised |-> TRUE, value |-> << >> ] >>
     ELSE \E gaps \in analyze_skill_gaps(c_args.candidate_data, c_args.job) :
            c_ret' = << [ raised |-> FALSE, value |-> gaps ] >>
  /\ UNCHANGED << c_fn, c_args >>

SpecGapsInit ==
  GapsInit /\ NormIdle /\ BandIdle /\ MatcherIdle /\ ThreadsIdle
SpecGapsNext ==
  AnalyzeSkillGaps
  /\ UNCHANGED << matcher_vars, serve_vars, thread_vars, norm_vars, band_vars >>
SpecGaps == SpecGapsInit /\ [][SpecGapsNext]_vars

(***************************************************************************)
(* The matcher held by a script: SpecEngine                                *)
(*                                                                         *)
(* generate_large_dummy_data.py and test_improved_matching.py import the   *)
(* matcher and call its methods themselves.  The caller here holds the     *)
(* object from the moment __init__ has set its fields, so that load_jobs   *)
(* and match_candidate_to_jobs are also called on the fields a failed or   *)
(* missing build leaves, and jobs.json is rewritten between the calls.     *)
(***************************************************************************)
\* most jobs of a catalog that load_additional_jobs extends
MaxEngineJobs == 3

\* a record of the catalog file with no "experience_years" key
JobNoExperienceKey ==
  Job("job_004", "Support Agent", "Operations",
      << <<"P","y","t","h","o","n">> >>, << >>, << >>,
      { "experience_years" }, {})

\* a record whose experience requirement holds no digit
JobSenior ==
  Job("job_005", "Principal Architect", "Engineering",
      << <<"P","y","t","h","o","n">>, <<"A","W","S">> >>, << >>,
      << "S", "e", "n", "i", "o", "r" >>, {}, {})

\* the jobs load_additional_jobs appends (the first of the list)
ADDITIONAL_JOBS == << JobFullStack >>

\* what jobs.json may hold when load_jobs opens it
EngineFiles ==
  { File(FALSE, << >>),
    File(TRUE, << >>),
    File(TRUE, << JobBackend >>),
    File(TRUE, << JobNoExperienceKey, JobBackend, JobSenior >>),
    File(TRUE, << JobGeneralist("job_006"), JobBackend >>),
    File(TRUE, << JobBackend, JobData_null_nice("job_003") >>) }

\* a candidate record whose "skills" value is null
CandidateNullSkills ==
  [ Candidate("Null Skills Candidate", << >>, 2, "") EXCEPT !.null = { "skills" } ]

\* a candidate for whom every job of the files has at most three matched
\* and at most two missing requirements, so that list(set)[:n] has one value
CandidateNode ==
  Candidate("Node Developer",
            << <<"P","y","t","h","o","n">>,
               <<"J","a","v","a","S","c","r","i","p","t">>,
               <<"R","e","a","c","t">>, <<"N","o","d","e",".","j","s">> >>,
            4, "python developer")

\* a candidate with an empty skills list, as the "No Skills Candidate" of the
\* tests, with a resume and some experience
CandidateGraduate == Candidate("No Skills Candidate", << >>, 4, "python developer")

EngineCandidates == { CandidateNode, CandidateNullSkills, CandidateGraduate }
\* top_k as the scripts pass it: negative, one, and the largest
EngineTopKs == { 0 - 1, 1, MaxTopK }

EngineInit ==
  /\ catalog_file \in EngineFiles
  /\ jobs_data = << >> /\ job_embeddings = << >> /\ faiss_index = << >>
  /\ tfidf_vectorizer = << >> /\ job_tfidf_vectors = << >>
  /\ phase = "script" /\ request = << >> /\ result = << >>
  /\ propagated = "none" /\ last_load = "none"

\* self.load_jobs(), from __init__ or called again; a raise reaches the
\* caller and leaves the fields assigned so far
EngineLoadJobs ==
  /\ phase = "script" /\ request = << >> /\ c_fn = "none"
  /\ LET r == load_jobs(CurrentFields, catalog_file) IN
     /\ SetFields(r.fields)
     /\ last_load' = IF r.raised THEN "raised" ELSE "ok"
  /\ UNCHANGED << catalog_file, phase, request, result, propagated >>

\* jobs.json is replaced on disk
EngineEditFile ==
  /\ phase = "script" /\ request = << >> /\ c_fn = "none"
  /\ catalog_file' \in EngineFiles \ { catalog_file }
  /\ UNCHANGED << jobs_data, job_embeddings, faiss_index, tfidf_vectorizer,
                  job_tfidf_vectors, serve_vars >>

\* load_additional_jobs(): jobs_data.copy() + ADDITIONAL_JOBS is written to
\* jobs.json and loaded.  The script imports the matcher, so its last
\* load_jobs returned; a raise of the load in here ends main()
load_additional_jobs ==
  /\ phase = "script" /\ request = << >> /\ c_fn = "none"
  /\ last_load = "ok"
  /\ Len(jobs_data) + Len(ADDITIONAL_JOBS) <= MaxEngineJobs
  /\ LET all_jobs == jobs_data \o ADDITIONAL_JOBS
         r == load_jobs(CurrentFields, File(TRUE, all_jobs))
     IN /\ catalog_file' = File(TRUE, all_jobs)
        /\ SetFields(r.fields)
        /\ last_load' = IF r.raised THEN "raised" ELSE "ok"
  /\ UNCHANGED << phase, request, result, propagated >>

\* the state stored for a call of match_candidate_to_jobs that added the
\* candidate's embedding to the index it searched
EngineMatch_indexing_candidate ==
  /\ phase = "script" /\ request = << >> /\ c_fn = "none"
  /\ \E candidate_data \in EngineCandidates, top_k \in EngineTopKs :
       /\ request' = << [ candidate |-> candidate_data, top_k |-> top_k ] >>
       /\ \E outcome \in match_outcomes(CurrentFields, candidate_data, top_k) :
            result' = outcome.value /\ propagated' = outcome.raised
       /\ faiss_index' =
            IF faiss_index = << >> \/ candidate_text_raises(candidate_data)
            THEN faiss_index
            ELSE << Append(faiss_index[1],
                           create_candidate_embedding(candidate_data)) >>
  /\ UNCHANGED << jobs_data, job_embeddings, tfidf_vectorizer,
                  job_tfidf_vectors, catalog_file, phase, last_load >>

\* improved_talent_matcher.match_candidate_to_jobs(candidate_data, top_k)
EngineMatch ==
  /\ phase = "script" /\ request = << >> /\ c_fn = "none"
  /\ \E candidate_data \in EngineCandidates, top_k \in EngineTopKs :
       /\ request' = << [ candidate |-> candidate_data, top_k |-> top_k ] >>
       /\ \E outcome \in match_outcomes(CurrentFields, candidate_data, top_k) :
            result' = outcome.value /\ propagated' = outcome.raised
  /\ UNCHANGED << matcher_vars, phase, last_load >>

\* the caller is done with the list
EngineRespond ==
  /\ phase = "script" /\ request # << >>
  /\ request' = << >> /\ result' = << >> /\ propagated' = "none"
  /\ UNCHANGED << matcher_vars, phase, last_load >>

\* improved_talent_matcher.analyze_skill_gaps(candidate_data, job) for a job
\* of jobs_data: the dict returned, or that the call raised
EngineAnalyzeGaps ==
  /\ phase = "script" /\ request = << >> /\ c_fn = "none"
  /\ \E candidate_data \in EngineCandidates, i \in 1..Len(jobs_data) :
       /\ c_fn' = "analyze_skill_gaps"
       /\ c_args' = [ candidate_data |-> candidate_data, job |-> jobs_data[i] ]
       /\ IF analyze_skill_gaps_raises(candidate_data, jobs_data[i])
          THEN c_ret' = << [ raised |-> TRUE, value |-> << >> ] >>
          ELSE \E gaps \in analyze_skill_gaps(candidate_data, jobs_data[i]) :
                 c_ret' = << [ raised |-> FALSE, value |-> gaps ] >>
  /\ UNCHANGED << matcher_vars, serve_vars >>

\* the caller is done with the dict
EngineGapsReturn ==
  /\ phase = "script" /\ c_fn = "analyze_skill_gaps"
  /\ c_fn' = "none" /\ c_args' = << >> /\ c_ret' = << >>
  /\ UNCHANGED << matcher_vars, serve_vars >>

SpecEngineInit ==
  EngineInit /\ ThreadsIdle /\ NormIdle /\ BandIdle /\ CallIdle
SpecEngineNext ==
  \/ EngineLoadJobs /\ UNCHANGED << thread_vars, norm_vars, band_vars, call_vars >>
  \/ EngineEditFile /\ UNCHANGED << thread_vars, norm_vars, band_vars, call_vars >>
  \/ load_additional_jobs /\ UNCHANGED << thread_vars, norm_vars, band_vars, call_vars >>
  \/ EngineMatch /\ UNCHANGED << thread_vars, norm_vars, band_vars, call_vars >>
  \/ EngineRespond /\ UNCHANGED << thread_vars, norm_vars, band_vars, call_vars >>
  \/ EngineAnalyzeGaps /\ UNCHANGED << thread_vars, norm_vars, band_vars >>
  \/ EngineGapsReturn /\ UNCHANGED << thread_vars, norm_vars, band_vars >>
SpecEngine == SpecEngineInit /\ [][SpecEngineNext]_vars

(***************************************************************************)
(* One pass of the scoring loop on given scores: SpecScenario              *)
(*                                                                         *)
(* Lines 353-411 for one candidate and one job, with the inner product the *)
(* index returned and the TF-IDF cosine drawn from a grid: the encoder and *)
(* the vectorizer can give any value of their ranges.                      *)
(***************************************************************************)
\* the scores are multiples of 1/ScenarioGrid
ScenarioGrid == 10

\* a job without requirements whose nice-to-have skills candidates have
JobNoRequirements ==
  Job("job_g2", "Generalist", "Operations", << >>,
      << <<"P","y","t","h","o","n">>, <<"A","W","S">> >>,
      << "3", "-", "6" >>, {}, {})

\* the job of the scenario, with and without a nice-to-have list, and a job
\* without requirements
ScenarioJobs ==
  { JobBackend, [ JobBackend EXCEPT !.nice_to_have = << >> ],
    JobNoRequirements }

ScenarioInit ==
  /\ c_fn = "score_match"
  /\ c_args \in [ candidate_data : { CandidatePython, CandidateNode },
                  job : ScenarioJobs,
                  raw_semantic : { Rat(n, ScenarioGrid) :
                                     n \in (0 - ScenarioGrid)..ScenarioGrid },
                  raw_tfidf : { Rat(n, ScenarioGrid) : n \in 0..ScenarioGrid } ]
  /\ c_ret = << >>

\* the dict appended to matches
ScoreMatch ==
  /\ c_fn = "score_match" /\ c_ret = << >>
  /\ \E match \in score_match(c_args.candidate_data, c_args.raw_semantic,
                              c_args.raw_tfidf, c_args.job) :
       c_ret' = << [ raised |-> FALSE, value |-> match ] >>
  /\ UNCHANGED << c_fn, c_args >>

SpecScenarioInit ==
  ScenarioInit /\ NormIdle /\ BandIdle /\ MatcherIdle /\ ThreadsIdle
SpecScenarioNext ==
  ScoreMatch
  /\ UNCHANGED << matcher_vars, serve_vars, thread_vars, norm_vars, band_vars >>
SpecScenario == SpecScenarioInit /\ [][SpecScenarioNext]_vars

(***************************************************************************)
(* calculate_experience_match_score called alone: SpecExperience           *)
(***************************************************************************)
\* largest number written in a requirement
MaxRequired == 10
\* most years of a candidate; the fewest is -1
MaxYears == 15

\* str(n) for 0 <= n < 100
NumStr(n) ==
  IF n < 10 THEN << Digits[n + 1] >>
  ELSE << Digits[(n \div 10) + 1], Digits[(n % 10) + 1] >>

\* requirement strings as the catalog writes them: "T+ years", "a-b", a
\* word without digits, the empty string
ThresholdReq(t) == NumStr(t) \o << "+", " ", "y", "e", "a", "r", "s" >>
RangeReq(a, b) == NumStr(a) \o << "-" >> \o NumStr(b)
ExperienceReqs ==
  { << >>, << "S", "e", "n", "i", "o", "r" >> }
    \cup { ThresholdReq(t) : t \in 0..MaxRequired }
    \cup { RangeReq(a, b) : a \in 0..MaxRequired, b \in 0..MaxRequired }

ExperienceInit ==
  /\ c_fn = "calculate_experience_match_score"
  /\ c_args \in [ candidate_years : (0 - 1)..MaxYears,
                  job_experience_req : ExperienceReqs ]
  /\ c_ret = << >>

\* calculate_experience_match_score(candidate_years, job_experience_req)
ExperienceScore ==
  /\ c_fn = "calculate_experience_match_score" /\ c_ret = << >>
  /\ c_ret' =
       IF experience_score_raises(c_args.candidate_years, c_args.job_experience_req)
       THEN << [ raised |-> TRUE, value |-> RInt(0) ] >>
       ELSE << [ raised |-> FALSE,
                 value |-> calculate_experience_match_score(
                              c_args.candidate_years, c_args.job_experience_req) ] >>
  /\ UNCHANGED << c_fn, c_args >>

SpecExperienceInit ==
  ExperienceInit /\ NormIdle /\ BandIdle /\ MatcherIdle /\ ThreadsIdle
SpecExperienceNext ==
  ExperienceScore
  /\ UNCHANGED << matcher_vars, serve_vars, thread_vars, norm_vars, band_vars >>
SpecExperience == SpecExperienceInit /\ [][SpecExperienceNext]_vars
(***************************************************************************)
(* calculate_skill_match_score as a function of its arguments: SpecSkill   *)
(***************************************************************************)
MaxSkills == 3

SkillJS == <<"J","S">>
SkillAWS == <<"A","W","S">>
SkillSQL == <<"S","Q","L">>
SkillPython == <<"P","y","t","h","o","n">>
SkillJava == <<"J","a","v","a">>
SkillCooking == <<"C","o","o","k","i","n","g">>

\* skills a candidate may list: an alias of a skill of two categories, skills
\* of one category each, and a skill of no category
SkillList == << SkillJS, SkillAWS, SkillSQL, SkillPython, SkillCooking >>
SkillPool == { SkillList[i] : i \in 1..Len(SkillList) }

\* the lists of up to n skills of SkillList, repetitions included, in the
\* order of SkillList: line 268 makes a set of the list before anything reads it
SkillLists(n) ==
  { [ i \in 1..Len(f) |-> SkillList[f[i]] ] :
      f \in { g \in SeqsUpTo(1..Len(SkillList), n) :
                \A i \in 1..(Len(g) - 1) : g[i] <= g[i + 1] } }

SkillRequirements ==
  { << >>,
    << SkillPython >>,
    << SkillJava >>,
    << SkillPython, <<"P","Y","T","H","O","N"," ">> >>,
    << SkillPython, SkillJava >>,
    << <<"J","a","v","a","S","c","r","i","p","t">>, SkillAWS, SkillSQL >>,
    << SkillCooking >>,
    << <<"R","e","a","c","t">>, <<"D","o","c","k","e","r">> >> }

SkillNiceToHave ==
  { << >>,
    << SkillSQL >>,
    << SkillAWS, <<"D","o","c","k","e","r">> >>,
    << SkillJS >> }

SkillInit ==
  /\ c_fn = "calculate_skill_match_score"
  /\ c_args \in [ candidate_skills : SkillLists(MaxSkills),
                  job_requirements : SkillRequirements,
                  job_nice_to_have : SkillNiceToHave ]
  /\ c_ret = << >>

\* calculate_skill_match_score(candidate_skills, job_requirements,
\* job_nice_to_have): the score it returns
SkillMatchScore ==
  /\ c_fn = "calculate_skill_match_score" /\ c_ret = << >>
  /\ c_ret' = << [ raised |-> FALSE,
                   value |-> calculate_skill_match_score(
                               c_args.candidate_skills,
                               c_args.job_requirements,
                               c_args.job_nice_to_have) ] >>
  /\ UNCHANGED << c_fn, c_args >>

SpecSkillInit ==
  SkillInit /\ NormIdle /\ BandIdle /\ MatcherIdle /\ ThreadsIdle
SpecSkillNext ==
  SkillMatchScore
  /\ UNCHANGED << matcher_vars, serve_vars, thread_vars, norm_vars, band_vars >>
SpecSkill == SpecSkillInit /\ [][SpecSkillNext]_vars

(***************************************************************************)
(* generate_enhanced_explanation as a function of its arguments:           *)
(* SpecExplain                                                             *)
(***************************************************************************)
ExplainCandidates ==
  { CandidateEmpty, CandidatePython, CandidateFrontend, CandidateFullStack,
    CandidateNode }
ExplainJobs ==
  { JobBackend, JobFrontend, JobGeneralist("job_g1"), JobCloud("job_c1"),
    JobData_null_nice("job_003"), JobFullStack }

\* the call raises TypeError: a set is built from a list that is None
explanation_call_raises(candidate_data, job) ==
  "skills" \in candidate_data.null \/ explanation_raises(job)

ExplainInit ==
  /\ c_fn = "generate_enhanced_explanation"
  /\ c_args \in [ candidate_data : ExplainCandidates,
                  job : ExplainJobs,
                  final_score : { Rat(n, ScenarioGrid) : n \in 0..ScenarioGrid },
                  experience_score :
                    { Rat(n, ScenarioGrid) : n \in 0..ScenarioGrid } ]
  /\ c_ret = << >>

\* generate_enhanced_explanation(candidate_data, job, final_score,
\* skill_score, experience_score): the parts of the string it returns, or
\* that it raised; skill_score is not read
GenerateExplanation ==
  /\ c_fn = "generate_enhanced_explanation" /\ c_ret = << >>
  /\ IF explanation_call_raises(c_args.candidate_data, c_args.job)
     THEN c_ret' = << [ raised |-> TRUE, value |-> << >> ] >>
     ELSE \E e \in generate_enhanced_explanation(
                     c_args.candidate_data, c_args.job, c_args.final_score,
                     RInt(0), c_args.experience_score) :
            c_ret' = << [ raised |-> FALSE, value |-> e ] >>
  /\ UNCHANGED << c_fn, c_args >>

SpecExplainInit ==
  ExplainInit /\ NormIdle /\ BandIdle /\ MatcherIdle /\ ThreadsIdle
SpecExplainNext ==
  GenerateExplanation
  /\ UNCHANGED << matcher_vars, serve_vars, thread_vars, norm_vars, band_vars >>
SpecExplain == SpecExplainInit /\ [][SpecExplainNext]_vars


(***************************************************************************)
(* create_job and match_candidate_to_jobs in two threads: SpecThreads      *)
(*                                                                         *)
(* The matcher is one module-level object with no lock.  One thread runs   *)
(* create_job (and load_jobs in it), the other match_candidate_to_jobs;    *)
(* a step is the code up to its next read or write of a shared field.      *)
(***************************************************************************)
\* a serving process whose index was built from the catalog file
ThreadsInit ==
  /\ \E jobs \in SeqsUpTo(FileJobs, MaxJobs) :
       LET r == load_jobs(InitialFields, File(TRUE, jobs)) IN
       /\ ~ r.raised
       /\ catalog_file = File(TRUE, jobs)
       /\ jobs_data = r.fields.jobs_data
       /\ job_embeddings = r.fields.job_embeddings
       /\ faiss_index = r.fields.faiss_index
       /\ tfidf_vectorizer = r.fields.tfidf_vectorizer
       /\ job_tfidf_vectors = r.fields.job_tfidf_vectors
  /\ phase = "serving" /\ request = << >> /\ result = << >> /\ last_load = "ok"
  /\ propagated = "none"
  /\ ThreadsIdle /\ NormIdle /\ BandIdle /\ CallIdle

match_locals == << m_cand, m_top_k, m_k, m_hits, m_tfidf, m_job, m_matches >>
match_thread == << mpc, match_locals, request, result, propagated >>

\* talent_matcher.jobs_data.append(new_job)
CreateJobAppend ==
  /\ lpc = "idle" /\ l_old = << >>
  /\ Len(jobs_data) < MaxJobs
  /\ \E job \in PostedJobs(Len(jobs_data)) : jobs_data' = Append(jobs_data, job)
  /\ l_old' = << jobs_data >>
  /\ lpc' = "write"
  /\ UNCHANGED << catalog_file, job_embeddings, faiss_index, tfidf_vectorizer,
                  job_tfidf_vectors, phase, last_load, match_thread,
                  norm_vars, band_vars, call_vars >>

\* json.dump(talent_matcher.jobs_data, f), or the raise that ends the handler
CreateJobWrite ==
  /\ lpc = "write"
  /\ \/ catalog_file' = File(TRUE, jobs_data) /\ lpc' = "open"
     \/ catalog_file' \in { catalog_file, File(FALSE, << >>) } /\ lpc' = "failed"
  /\ UNCHANGED << jobs_data, job_embeddings, faiss_index, tfidf_vectorizer,
                  job_tfidf_vectors, phase, last_load, l_old, match_thread,
                  norm_vars, band_vars, call_vars >>

\* self.jobs_data = json.load(f)
LoadOpen ==
  /\ lpc = "open"
  /\ jobs_data' = catalog_file.jobs
  /\ lpc' = "texts"
  /\ UNCHANGED << catalog_file, job_embeddings, faiss_index, tfidf_vectorizer,
                  job_tfidf_vectors, phase, last_load, l_old, match_thread,
                  norm_vars, band_vars, call_vars >>

\* the loop that builds job_texts and job_skill_texts, then
\* self.job_embeddings = self.model.encode(...)
LoadEncode ==
  /\ lpc = "texts"
  /\ IF \E i \in 1..Len(jobs_data) : job_text_raises(jobs_data[i])
     THEN /\ lpc' = "failed" /\ last_load' = "raised"
          /\ UNCHANGED job_embeddings
     ELSE /\ job_embeddings' = << EncodeJobs(jobs_data) >>
          /\ lpc' = "vectorizer"
          /\ UNCHANGED last_load
  /\ UNCHANGED << catalog_file, jobs_data, faiss_index, tfidf_vectorizer,
                  job_tfidf_vectors, phase, l_old, match_thread,
                  norm_vars, band_vars, call_vars >>

\* self.tfidf_vectorizer = TfidfVectorizer(...)
LoadNewVectorizer ==
  /\ lpc = "vectorizer"
  /\ tfidf_vectorizer' = UnfittedVectorizer
  /\ lpc' = "fit"
  /\ UNCHANGED << catalog_file, jobs_data, job_embeddings, faiss_index,
                  job_tfidf_vectors, phase, last_load, l_old, match_thread,
                  norm_vars, band_vars, call_vars >>

\* fit_transform fits the vectorizer in place, or raises on an empty
\* vocabulary
LoadFit ==
  /\ lpc = "fit"
  /\ IF TfidfVocabulary(JobSkillTexts(jobs_data)) = << >>
     THEN /\ lpc' = "failed" /\ last_load' = "raised"
          /\ UNCHANGED tfidf_vectorizer
     ELSE /\ tfidf_vectorizer' = FittedVectorizer(JobSkillTexts(jobs_data))
          /\ lpc' = "matrix"
          /\ UNCHANGED last_load
  /\ UNCHANGED << catalog_file, jobs_data, job_embeddings, faiss_index,
                  job_tfidf_vectors, phase, l_old, match_thread,
                  norm_vars, band_vars, call_vars >>

\* self.job_tfidf_vectors = (the matrix fit_transform returns)
LoadMatrix ==
  /\ lpc = "matrix"
  /\ job_tfidf_vectors' = TfidfMatrix(JobSkillTexts(jobs_data))
  /\ lpc' = "index"
  /\ UNCHANGED << catalog_file, jobs_data, job_embeddings, faiss_index,
                  tfidf_vectorizer, phase, last_load, l_old, match_thread,
                  norm_vars, band_vars, call_vars >>

\* self.faiss_index = faiss.IndexFlatIP(dimension): an index with no vector
LoadNewIndex ==
  /\ lpc = "index"
  /\ faiss_index' = << << >> >>
  /\ lpc' = "add"
  /\ UNCHANGED << catalog_file, jobs_data, job_embeddings, tfidf_vectorizer,
                  job_tfidf_vectors, phase, last_load, l_old, match_thread,
                  norm_vars, band_vars, call_vars >>

\* self.faiss_index.add(self.job_embeddings...)
LoadIndexAdd ==
  /\ lpc = "add"
  /\ faiss_index' = << job_embeddings[1] >>
  /\ lpc' = "done"
  /\ UNCHANGED << catalog_file, jobs_data, job_embeddings, tfidf_vectorizer,
                  job_tfidf_vectors, phase, last_load, l_old, match_thread,
                  norm_vars, band_vars, call_vars >>

load_thread == << matcher_vars, phase, last_load, propagated, lpc, l_old >>

Return(matches) ==
  /\ result' = matches
  /\ mpc' = "returned"

\* the guard of match_candidate_to_jobs
MatchGuard ==
  /\ mpc = "idle"
  /\ \E candidate_data \in Candidates, top_k \in TopKs :
       /\ m_cand' = << candidate_data >>
       /\ m_top_k' = top_k
       /\ request' = << [ candidate |-> candidate_data, top_k |-> top_k ] >>
  /\ IF faiss_index = << >> \/ Len(jobs_data) = 0
     THEN Return(<< >>)
     ELSE mpc' = "k" /\ UNCHANGED result
  /\ UNCHANGED << m_k, m_hits, m_tfidf, m_job, m_matches, load_thread, norm_vars, band_vars, call_vars >>

\* k = min(top_k * 2, len(self.jobs_data))
MatchShortlistSize ==
  /\ mpc = "k"
  /\ m_k' = shortlist_size(m_top_k, Len(jobs_data))
  /\ mpc' = "search"
  /\ UNCHANGED << m_cand, m_top_k, m_hits, m_tfidf, m_job, m_matches,
                  request, result, load_thread, norm_vars, band_vars, call_vars >>

\* self.faiss_index.search(..., k)
MatchSearch ==
  /\ mpc = "search"
  /\ IF m_k <= 0
     THEN Return(<< >>) /\ UNCHANGED m_hits
     ELSE /\ m_hits' = FaissSearch(faiss_index[1],
                                   create_candidate_embedding(m_cand[1]), m_k)
          /\ mpc' = "tfidf"
          /\ UNCHANGED result
  /\ UNCHANGED << m_cand, m_top_k, m_k, m_tfidf, m_job, m_matches, request,
                  load_thread, norm_vars, band_vars, call_vars >>

\* candidate_tfidf = self.tfidf_vectorizer.transform(...)
MatchTransform ==
  /\ mpc = "tfidf"
  /\ IF tfidf_vectorizer = << >> \/ ~ tfidf_vectorizer[1].fitted
     THEN Return(<< >>) /\ UNCHANGED m_tfidf
     ELSE /\ m_tfidf' = << CandidateTfidf(tfidf_vectorizer[1], m_cand[1]) >>
          /\ mpc' = "job"
          /\ UNCHANGED result
  /\ UNCHANGED << m_cand, m_top_k, m_k, m_hits, m_job, m_matches, request,
                  load_thread, norm_vars, band_vars, call_vars >>

NextHit == m_hits[Len(m_matches) + 1]

\* job = self.jobs_data[job_idx], or the sort and the return after the
\* last hit
MatchReadJob ==
  /\ mpc = "job"
  /\ IF Len(m_matches) = Len(m_hits)
     THEN /\ Return(return_top_k(SortMatches(m_matches), m_top_k))
          /\ UNCHANGED m_job
     ELSE IF job_lookup_raises(jobs_data, NextHit.label)
     THEN Return(<< >>) /\ UNCHANGED m_job
     ELSE /\ m_job' = << PyIndex(jobs_data, NextHit.label) >>
          /\ mpc' = "row"
          /\ UNCHANGED result
  /\ UNCHANGED << m_cand, m_top_k, m_k, m_hits, m_tfidf, m_matches, request,
                  load_thread, norm_vars, band_vars, call_vars >>

\* job_tfidf = self.job_tfidf_vectors[job_idx] and the rest of the loop body
MatchScore ==
  /\ mpc = "row"
  /\ IF \/ row_lookup_raises(job_tfidf_vectors, m_tfidf[1], NextHit.label)
        \/ score_raises(m_cand[1], m_job[1])
     THEN Return(<< >>) /\ UNCHANGED m_matches
     ELSE /\ \E m \in score_entry(m_cand[1], m_tfidf[1], NextHit, m_job[1],
                                  PyIndex(job_tfidf_vectors[1].rows, NextHit.label)) :
               m_matches' = Append(m_matches, m)
          /\ mpc' = "job"
          /\ UNCHANGED result
  /\ UNCHANGED << m_cand, m_top_k, m_k, m_hits, m_tfidf, m_job, request,
                  load_thread, norm_vars, band_vars, call_vars >>

\* the response leaves the process; the thread takes the next request
MatchRespond ==
  /\ mpc = "returned"
  /\ mpc' = "idle"
  /\ request' = << >> /\ result' = << >>
  /\ m_cand' = << >> /\ m_top_k' = 0 /\ m_k' = 0 /\ m_hits' = << >>
  /\ m_tfidf' = << >> /\ m_job' = << >> /\ m_matches' = << >>
  /\ UNCHANGED << load_thread, norm_vars, band_vars, call_vars >>

ThreadsNext ==
  \/ CreateJobAppend \/ CreateJobWrite \/ LoadOpen \/ LoadEncode
  \/ LoadNewVectorizer \/ LoadFit \/ LoadMatrix \/ LoadNewIndex \/ LoadIndexAdd
  \/ MatchGuard \/ MatchShortlistSize \/ MatchSearch \/ MatchTransform
  \/ MatchReadJob \/ MatchScore \/ MatchRespond

SpecThreads == ThreadsInit /\ [][ThreadsNext]_vars

(***************************************************************************)
(* Claim C2                                                                *)
(***************************************************************************)
\* the fields load_jobs builds from a catalog, in a sequence of length 1;
\* << >> when it raises
BuiltFrom(jobs) ==
  LET r == load_jobs(InitialFields, File(TRUE, jobs)) IN
  IF r.raised THEN << >> ELSE << r.fields >>

\* the catalog before the rebuild and the catalog after it
CatalogVersions ==
  IF l_old = << >> THEN { jobs_data } ELSE { l_old[1], jobs_data }

\* C2: a match that overlaps a rebuild returns what it returns on the index
\* of one catalog version, the one before the rebuild or the one after it.
C2_MatchReadsOneCatalogVersion ==
  mpc = "returned" =>
    \E jobs \in CatalogVersions :
      /\ BuiltFrom(jobs) # << >>
      /\ result \in match_candidate_to_jobs(BuiltFrom(jobs)[1], m_cand[1], m_top_k)

(***************************************************************************)
(* Claims C1 - C7                                                          *)
(***************************************************************************)
Answered == request # << >>

\* every field is what load_jobs builds from the jobs in jobs_data
FieldsOfOneCatalog ==
  LET r == load_jobs(InitialFields, File(TRUE, jobs_data)) IN
  ~ r.raised /\ r.fields = CurrentFields

SortedDescending(matches) ==
  \A i \in 1..(Len(matches) - 1) :
    RGe(matches[i].similarity_score, matches[i + 1].similarity_score)

\* C1: every result of match_candidate_to_jobs has 0 <= similarity_score
\* <= 100, also when the raw inner product of candidate and job is negative.
C1_ScoreWithinPercentRange ==
  \A i \in 1..Len(result) :
    /\ result[i].similarity_score[1] >= 0
    /\ result[i].similarity_score[1] <= 100 * result[i].similarity_score[2]

\* a returned job whose inner product with the candidate is negative
C1_Witness ==
  /\ Answered
  /\ \E i \in 1..Len(result) :
       RLt(InnerProduct(JobTextVec[result[i].title],
                        create_candidate_embedding(request[1].candidate)),
           RInt(0))

\* C4: a request with top_k <= 0 returns the empty list.
C4_NonPositiveTopKReturnsEmpty ==
  (Answered /\ request[1].top_k <= 0) => result = << >>

\* top_k = -1 answered on a built index of two jobs
C4_Witness ==
  /\ Answered /\ request[1].top_k = 0 - 1
  /\ FieldsOfOneCatalog /\ Len(jobs_data) = 2
  /\ result = << >>

\* C5: for top_k >= 1 on an index built from the M jobs of the catalog, the
\* result has exactly min(top_k, M) entries.
C5_ResultLength ==
  (Answered /\ request[1].top_k >= 1 /\ FieldsOfOneCatalog) =>
    Len(result) = Min2(request[1].top_k, Len(jobs_data))

\* fewer jobs than top_k: one job, top_k = 2, one result
C5_Witness ==
  /\ Answered /\ FieldsOfOneCatalog
  /\ request[1].top_k = 2 /\ Len(jobs_data) = 1 /\ Len(result) = 1

\* C6: the returned list is ordered by similarity_score, non-increasing.
C6_ResultSortedDescending == SortedDescending(result)

\* two results returned in another order than the index search gave them
C6_Witness ==
  /\ Len(result) = 2
  /\ RGt(result[1].similarity_score, result[2].similarity_score)
  /\ RLt(result[1].score_breakdown.semantic_score,
         result[2].score_breakdown.semantic_score)

Populated(m) ==
  /\ m.job_id = m.job_details.job_id
  /\ m.similarity_score[1] >= 0
  /\ m.confidence_band \in { "AUTO", "REVIEW", "HUMAN" }
  /\ m.explanation # << >>

\* C7: a candidate with no skills and an empty resume, matched with top_k >=
\* 1 against a catalog that is not empty, gets min(top_k, M) results, each
\* populated, sorted by score descending.
C7_EmptyCandidateStillMatched ==
  (Answered /\ request[1].candidate = CandidateEmpty
            /\ request[1].top_k >= 1 /\ Len(jobs_data) > 0) =>
    /\ Len(result) = Min2(request[1].top_k, Len(jobs_data))
    /\ \A i \in 1..Len(result) : Populated(result[i])
    /\ SortedDescending(result)

\* the same, on the states where every field was built from jobs_data
C7_EmptyCandidateOnBuiltIndex ==
  FieldsOfOneCatalog => C7_EmptyCandidateStillMatched

\* C3: after a load_jobs that raised, either the process is gone (no later
\* request is served) or jobs_data, job_embeddings, the index, the
\* vectorizer and the TF-IDF matrix are the values of one successful build,
\* so that no later request runs on fields of different catalogs.
C3_FailedLoadLeavesOneCatalog ==
  (last_load = "raised" /\ phase = "serving") => FieldsOfOneCatalog

(***************************************************************************)
(* Claims C8 - C10                                                         *)
(***************************************************************************)
BandRank(b) == IF b = "AUTO" THEN 2 ELSE IF b = "REVIEW" THEN 1 ELSE 0

\* C8: get_confidence_band returns AUTO exactly for scores >= 0.80, REVIEW
\* exactly for 0.60 <= score < 0.80 and HUMAN exactly for scores < 0.60, for
\* every score; of two scores the larger never gets the lower band.
C8_BandThresholdsAndMonotone ==
  b_band1 # None =>
    LET n == b_score1[1]
        d == b_score1[2]
    IN /\ b_band1 \in { "AUTO", "REVIEW", "HUMAN" }
       /\ (b_band1 = "AUTO") <=> (100 * n >= 80 * d)
       /\ (b_band1 = "REVIEW") <=> (100 * n >= 60 * d /\ 100 * n < 80 * d)
       /\ (b_band1 = "HUMAN") <=> (100 * n < 60 * d)
       /\ (b_score1[1] * b_score2[2] >= b_score2[1] * b_score1[2]
             => BandRank(b_band1) >= BandRank(b_band2))

\* the two thresholds themselves have been classified
C8_Witness ==
  /\ b_score1 = << 4, 5 >> /\ b_band1 = "AUTO"
  /\ b_score2 = << 3, 5 >> /\ b_band2 = "REVIEW"

\* C9: normalize_skill_name applied to its own result returns that result,
\* and no value of the synonym table is a key of the table.
C9_NormalizeIdempotent ==
  /\ n_out2 # << >> => n_out2 = n_out
  /\ \A p \in normalizations : ~ \E q \in normalizations : q[1] = p[2]

\* an upper-case synonym with whitespace around it has been normalised twice
C9_Witness ==
  /\ n_out2 # << >>
  /\ n_word = << <<"a","w","s"," ","e","c","2">> >>
  /\ n_in = << " " >> \o StrUpper(n_word[1]) \o << "\t" >>
  /\ n_out2 = << <<"a","w","s">> >>

\* the pairs of test_skill_normalization
TestPairs ==
  { << <<"j","s">>,
       <<"j","a","v","a","s","c","r","i","p","t">> >>,
    << <<"k","8","s">>,
       <<"k","u","b","e","r","n","e","t","e","s">> >>,
    << <<"t","f">>,
       <<"t","e","n","s","o","r","f","l","o","w">> >>,
    << <<"m","l">>,
       <<"m","a","c","h","i","n","e"," ","l","e","a","r","n","i","n","g">> >>,
    << <<"r","e","a","c","t",".","j","s">>,
       <<"r","e","a","c","t">> >>,
    << <<"n","o","d","e",".","j","s">>,
       <<"n","o","d","e","j","s">> >> }

\* C10: a synonym in any case and with any whitespace around it maps to its
\* canonical token (the pairs of test_skill_normalization), and a string that
\* is no synonym key once lower-cased and trimmed comes back lower-cased and
\* trimmed.
C10_NormalizeCanonical ==
  n_out # << >> =>
    /\ n_word # << >> =>
         LET w == n_word[1] IN
         /\ \A p \in TestPairs : p[1] = w => n_out[1] = p[2]
         /\ (~ \E p \in normalizations : p[1] = w) => n_out[1] = w
    /\ n_word = << >> =>
         LET s == StrStrip(StrLower(n_in)) IN
         (~ \E p \in normalizations : p[1] = s) => n_out[1] = s

\* " JS" with a trailing tab has been normalised to javascript
C10_Witness ==
  /\ n_word = << <<"j","s">> >>
  /\ n_in = << " ", "J", "S", "\t" >>
  /\ n_out = << <<"j","a","v","a","s","c","r","i","p","t">> >>

(***************************************************************************)
(* Claims C11 - C20                                                        *)
(***************************************************************************)
GapsReturned == c_fn = "analyze_skill_gaps" /\ c_ret # << >>

\* the job carries a requirements list and the list is empty
EmptyRequirements(job) ==
  /\ HasKey(job, "requirements") /\ ~ IsNull(job, "requirements")
  /\ job.requirements = << >>

\* C11: analyze_skill_gaps on a job whose requirements list is empty does
\* not raise and returns readiness_score = 0 and skill_match_percentage = 0,
\* for every candidate.
C11_EmptyRequirementsReadinessZero ==
  (GapsReturned /\ EmptyRequirements(c_args.job)) =>
    /\ ~ c_ret[1].raised
    /\ c_ret[1].value.readiness_score = RInt(0)
    /\ c_ret[1].value.skill_match_percentage = RInt(0)

\* a candidate with skills analysed against a job with no requirement
C11_Witness ==
  /\ GapsReturned /\ EmptyRequirements(c_args.job)
  /\ c_args.candidate_data.skills # << >>
  /\ ~ c_ret[1].raised /\ c_ret[1].value.readiness_score = RInt(0)

\* C12: match_candidate_to_jobs never lets an exception reach its caller,
\* whatever the candidate record and the job records hold: it returns a
\* list.  (load_jobs does raise: see EngineLoadJobs.)
C12_MatchNeverPropagates ==
  Answered => propagated = "none"

\* a request whose try body raised (a null skills value, a job with a null
\* list, top_k < 0) and that was answered with the empty list
C12_Witness ==
  /\ Answered /\ propagated = "none" /\ result = << >>
  /\ match_body_exception(CurrentFields, request[1].candidate, request[1].top_k)
       = "TypeError"
  /\ last_load = "raised"

\* C13: with no index built, or with zero jobs in jobs_data,
\* match_candidate_to_jobs returns the empty list for every candidate and
\* every top_k, and raises nothing.
C13_NoCatalogReturnsEmpty ==
  (Answered /\ (faiss_index = << >> \/ Len(jobs_data) = 0))
    => (result = << >> /\ propagated = "none")

\* both cases answered: a matcher that never built an index asked for a
\* positive top_k, or an index kept from an earlier build next to an empty
\* jobs_data
C13_Witness ==
  /\ Answered /\ result = << >> /\ propagated = "none"
  /\ request[1].top_k > 0
  /\ request[1].candidate = CandidateNode
  /\ faiss_index # << >> /\ Len(jobs_data) = 0

\* the matcher before any build, asked for a positive top_k
C13_NoIndexAnswered ==
  /\ Answered /\ result = << >> /\ propagated = "none"
  /\ request[1].top_k > 0 /\ faiss_index = << >> /\ last_load = "none"

\* the job_ids of a returned list, in order, each with its confidence band
Ranking(matches) ==
  [ i \in 1..Len(matches) |->
      << matches[i].job_id, matches[i].confidence_band >> ]

\* the fields are those of a successful build from the catalog now on disk
BuiltFromCatalogFile ==
  /\ last_load = "ok" /\ catalog_file.readable
  /\ jobs_data = catalog_file.jobs

\* C14: when the index was built from the catalog on disk and the catalog
\* has not changed, calling load_jobs again and matching the same candidate
\* with the same top_k gives the same job_ids in the same order with the
\* same confidence bands as the list returned before the rebuild.
C14_RebuildKeepsRanking ==
  (Answered /\ BuiltFromCatalogFile) =>
    LET rebuilt == load_jobs(CurrentFields, catalog_file)
        again == match_outcomes(rebuilt.fields, request[1].candidate,
                                request[1].top_k)
    IN /\ ~ rebuilt.raised
       /\ again # {}
       /\ \A outcome \in again :
            /\ outcome.raised = "none"
            /\ Ranking(outcome.value) = Ranking(result)

\* a list of two jobs returned on fields built from the catalog on disk
C14_Witness ==
  /\ Answered /\ BuiltFromCatalogFile
  /\ Len(result) = 2
  /\ result[1].confidence_band # result[2].confidence_band

\* no two positions of a list of jobs hold the same job_id
UniqueJobIds(jobs) ==
  \A i, j \in 1..Len(jobs) : jobs[i].job_id = jobs[j].job_id => i = j

\* C15: after any sequence of catalog-changing operations (create_job,
\* load_additional_jobs, load_jobs), no two jobs of jobs_data and no two
\* jobs of the persisted catalog share a job_id.
C15_JobIdsUnique ==
  UniqueJobIds(jobs_data) /\ UniqueJobIds(catalog_file.jobs)

\* the parts of an explanation that are of one kind
PartsOfKind(explanation, kind) ==
  { explanation[i] : i \in { j \in 1..Len(explanation) :
                               explanation[j].kind = kind } }

\* the pass of the scenario has returned: skills ["Python", "AWS"], 5 years,
\* against requirements ["Python", "Django", "AWS"], experience "3-6"
ScenarioScored ==
  /\ c_fn = "score_match" /\ c_ret # << >>
  /\ c_args.candidate_data = CandidatePython
  /\ JobList(c_args.job, "requirements") = JobBackend.requirements

\* C16: for skills ["Python", "AWS"] and 5 years against a job requiring
\* ["Python", "Django", "AWS"] with experience "3-6", the experience score
\* is 1.0, the confidence band is REVIEW or AUTO whatever the semantic and
\* the lexical score are, and the explanation names python and aws as key
\* skills and django as missing.
C16_ScenarioBandAndExplanation ==
  ScenarioScored =>
    LET match == c_ret[1].value IN
    /\ match.score_breakdown.experience_score = RInt(1)
    /\ match.confidence_band \in { "REVIEW", "AUTO" }
    /\ \E part \in PartsOfKind(match.explanation, "key_skills") :
         { <<"p","y","t","h","o","n">>, <<"a","w","s">> } \subseteq part.skills
    /\ \E part \in PartsOfKind(match.explanation, "missing") :
         <<"d","j","a","n","g","o">> \in part.skills

\* what does hold of the scenario: the experience score and the explanation
C16_ScenarioExperienceAndExplanation ==
  ScenarioScored =>
    LET match == c_ret[1].value IN
    /\ match.score_breakdown.experience_score = RInt(1)
    /\ \E part \in PartsOfKind(match.explanation, "key_skills") :
         { <<"p","y","t","h","o","n">>, <<"a","w","s">> } \subseteq part.skills
    /\ \E part \in PartsOfKind(match.explanation, "missing") :
         <<"d","j","a","n","g","o">> \in part.skills

\* 0.3*semantic_score + 0.4*skill_score + 0.2*experience_score
\* + 0.1*tfidf_score of a score_breakdown, clamped to [0, 1]
ClampedFusion(b) ==
  LET sum == RAdd(RAdd(RMul(Rat(3, 10), b.semantic_score),
                       RMul(Rat(4, 10), b.skill_score)),
                  RAdd(RMul(Rat(2, 10), b.experience_score),
                       RMul(Rat(1, 10), b.tfidf_score)))
  IN IF RLt(sum, RInt(0)) THEN RInt(0)
     ELSE IF RGt(sum, RInt(1)) THEN RInt(1) ELSE sum

\* the three statements of C17 about one match dict
FusionConsistent(match) ==
  LET b == match.score_breakdown IN
  /\ b.final_score = ClampedFusion(b)
  /\ match.similarity_score = RMul(RInt(100), b.final_score)
  /\ match.confidence_band = "AUTO" <=> RGe(match.similarity_score, RInt(80))
  /\ match.confidence_band = "REVIEW" <=>
       (RGe(match.similarity_score, RInt(60)) /\ RLt(match.similarity_score, RInt(80)))
  /\ match.confidence_band = "HUMAN" <=> RLt(match.similarity_score, RInt(60))

\* C17: in every match returned, score_breakdown.final_score is
\* 0.3*semantic_score + 0.4*skill_score + 0.2*experience_score
\* + 0.1*tfidf_score clamped to [0, 1], similarity_score is 100 times that
\* final_score, and confidence_band is AUTO iff similarity_score >= 80,
\* REVIEW iff 60 <= similarity_score < 80, HUMAN iff similarity_score < 60.
C17_FusionPercentBand ==
  Answered => \A i \in 1..Len(result) : FusionConsistent(result[i])

\* a returned list with a match whose four sub-scores are all positive and
\* different from each other
C17_Witness ==
  /\ Answered
  /\ \E i \in 1..Len(result) :
       LET b == result[i].score_breakdown IN
       /\ RGt(b.semantic_score, RInt(0)) /\ RGt(b.tfidf_score, RInt(0))
       /\ RGt(b.skill_score, RInt(0))
       /\ b.semantic_score # b.skill_score
       /\ result[i].confidence_band # "HUMAN"

\* calculate_experience_match_score has returned for a requirement that
\* holds the numbers given
ExperienceReturned(numbers) ==
  /\ c_fn = "calculate_experience_match_score" /\ c_ret # << >>
  /\ ~ c_ret[1].raised
  /\ FindNumbers(c_args.job_experience_req) = numbers

\* C18: for a requirement "min-max" with min <= max the score is 1.0 inside
\* [min, max], 0.8 or 0.9 just outside either bound (from 0.8*min, up to
\* 1.2*max), and further outside a score below 0.8 that is never below 0.3.
C18_RangeScore ==
  \A min_years, max_years \in 0..MaxRequired :
    (min_years <= max_years /\ ExperienceReturned(<< min_years, max_years >>)) =>
      LET years == c_args.candidate_years
          score == c_ret[1].value
          inside == min_years <= years /\ years <= max_years
          just_outside ==
            /\ ~ inside
            /\ 10 * years >= 8 * min_years /\ 10 * years <= 12 * max_years
      IN /\ inside => score = RInt(1)
         /\ just_outside => score \in { Rat(8, 10), Rat(9, 10) }
         /\ (~ inside /\ ~ just_outside) =>
              (RLt(score, Rat(8, 10)) /\ RGe(score, Rat(3, 10)))

\* what the range branch does give: 1.0 inside, 0.9 from 0.8*min upwards
\* however far above max, 0.8 below 0.8*min however far below
C18_RangeScoreAsCoded ==
  \A min_years, max_years \in 0..MaxRequired :
    (min_years <= max_years /\ ExperienceReturned(<< min_years, max_years >>)) =>
      LET years == c_args.candidate_years
          score == c_ret[1].value
      IN score = IF min_years <= years /\ years <= max_years THEN RInt(1)
                 ELSE IF 10 * years >= 8 * min_years THEN Rat(9, 10)
                 ELSE Rat(8, 10)

\* C19: for a requirement with the single number T > 0 the score is 1.0
\* when years >= T, 0.8 when 0.8*T <= years < T, and max(0.3, years/T)
\* when years < 0.8*T; it does not decrease when the candidate has one year
\* more, and it is never below 0.3.
C19_ThresholdScore ==
  \A T \in 1..MaxRequired :
    ExperienceReturned(<< T >>) =>
      LET years == c_args.candidate_years
          score == c_ret[1].value
          ratio == Rat(years, T)
      IN /\ years >= T => score = RInt(1)
         /\ (10 * years >= 8 * T /\ years < T) => score = Rat(8, 10)
         /\ 10 * years < 8 * T =>
              score = (IF RLt(ratio, Rat(3, 10)) THEN Rat(3, 10) ELSE ratio)
         /\ RGe(score, Rat(3, 10))
         /\ RLe(score,
                calculate_experience_match_score(years + 1,
                                                 c_args.job_experience_req))

\* a candidate below 80% of the threshold whose ratio is above the floor
C19_Witness ==
  \E T \in 1..MaxRequired :
    /\ ExperienceReturned(<< T >>)
    /\ 10 * c_args.candidate_years < 8 * T
    /\ RGt(c_ret[1].value, Rat(3, 10))
    /\ RLt(c_ret[1].value, Rat(8, 10))

\* a candidate whose ratio is below the floor
C19_FloorReached ==
  \E T \in 1..MaxRequired :
    /\ ExperienceReturned(<< T >>)
    /\ 10 * c_args.candidate_years < 3 * T
    /\ c_ret[1].value = Rat(3, 10)

\* the experience requirement of a job as match_candidate_to_jobs passes it:
\* job.get('experience_years', '')
ExperienceReqOf(job) == JobList(job, "experience_years")

\* the requirement is missing, empty, or holds no digit
NoExperienceNumber(job) == FindNumbers(ExperienceReqOf(job)) = << >>

\* C20: a job whose experience_years is missing, empty or without digits
\* gets the experience score 0.8 for every candidate, and the request that
\* meets such a job still returns a match for it and for the other jobs.
C20_UnparseableExperienceNeutral ==
  /\ \A i \in 1..Len(jobs_data) :
       NoExperienceNumber(jobs_data[i]) =>
         \A years \in (0 - 1)..MaxYears :
           /\ ~ experience_score_raises(years, ExperienceReqOf(jobs_data[i]))
           /\ calculate_experience_match_score(years, ExperienceReqOf(jobs_data[i]))
                = Rat(8, 10)
  /\ (/\ Answered /\ BuiltFromCatalogFile
      /\ request[1].candidate.null = {} /\ request[1].top_k > 0) =>
       /\ Len(result) = Min2(request[1].top_k, Len(jobs_data))
       /\ \A i \in 1..Len(result) :
            NoExperienceNumber(result[i].job_details) =>
              result[i].score_breakdown.experience_score = Rat(8, 10)

\* a match returned for a job whose experience_years is the empty string
C20_EmptyRequirementMatched ==
  /\ Answered /\ BuiltFromCatalogFile
  /\ \E i \in 1..Len(result) :
       /\ HasKey(result[i].job_details, "experience_years")
       /\ result[i].job_details.experience_years = << >>
       /\ result[i].score_breakdown.experience_score = Rat(8, 10)

\* a list returned from a catalog of three jobs that holds a match for a
\* job without the experience_years key, one for a job whose requirement
\* has no digit, both with experience score 0.8
C20_Witness ==
  /\ Answered /\ BuiltFromCatalogFile /\ Len(jobs_data) = 3
  /\ \E i, j \in 1..Len(result) :
       /\ ~ HasKey(result[i].job_details, "experience_years")
       /\ result[i].score_breakdown.experience_score = Rat(8, 10)
       /\ HasKey(result[j].job_details, "experience_years")
       /\ ExperienceReqOf(result[j].job_details) # << >>
       /\ NoExperienceNumber(result[j].job_details)
       /\ result[j].score_breakdown.experience_score = Rat(8, 10)
(***************************************************************************)
(* The skill score                                                         *)
(***************************************************************************)
SkillScored == c_fn = "calculate_skill_match_score" /\ c_ret # << >>
SkillCandidate == NormSet(c_args.candidate_skills)
SkillRequired == NormSet(c_args.job_requirements)
SkillNice == NormSet(c_args.job_nice_to_have)

\* the categories in which the candidate and the requirements both have a skill
SharedCategories(candidate, required) ==
  { c \in 1..Len(skill_categories) :
      /\ candidate \cap skill_categories[c][2] # {}
      /\ required \cap skill_categories[c][2] # {} }

\* 0.3 * min(candidate skills, required skills) / required skills, summed over
\* the categories cs
RECURSIVE CategorySum(_, _, _)
CategorySum(cs, candidate, required) ==
  IF cs = {} THEN RInt(0)
  ELSE LET c == CHOOSE x \in cs : TRUE
           job_in == Cardinality(required \cap skill_categories[c][2])
           cand_in == Cardinality(candidate \cap skill_categories[c][2])
       IN RAdd(Rat(3 * Min2(cand_in, job_in), 10 * job_in),
               CategorySum(cs \ { c }, candidate, required))

SkillSum(candidate, required, nice) ==
  LET required_ratio ==
        Rat(Cardinality(candidate \cap required), Cardinality(required))
      nice_ratio ==
        IF nice = {} THEN RInt(0)
        ELSE Rat(Cardinality(candidate \cap nice), Cardinality(nice))
      category_credit ==
        CategorySum(SharedCategories(candidate, required), candidate, required)
  IN RAdd(RAdd(RMul(Rat(7, 10), required_ratio),
               RMul(Rat(2, 10), nice_ratio)),
          RMul(Rat(1, 10), category_credit))

WeightedSkillSum == SkillSum(SkillCandidate, SkillRequired, SkillNice)

\* C21: with a requirement list that is not empty, calculate_skill_match_score
\* returns min(1.0, 0.7 * required_ratio + 0.2 * nice_ratio + 0.1 *
\* category_credit), the ratios counted over the distinct normalized skills
\* (nice_ratio 0 without nice-to-have skills); every returned score lies in
\* [0, 1].
C21_SkillScoreFormula ==
  SkillScored =>
    /\ RGe(c_ret[1].value, RInt(0)) /\ RLe(c_ret[1].value, RInt(1))
    /\ c_args.job_requirements # << >> =>
         /\ c_ret[1].value = RMin(RInt(1), WeightedSkillSum)

\* a score that the cap at 1.0 cut, for requirements listed with a duplicate
\* alias aside
C21_CapReached ==
  /\ SkillScored
  /\ c_args.job_requirements # << >>
  /\ RGt(WeightedSkillSum, RInt(1))
  /\ c_ret[1].value = RInt(1)

\* a requirement list naming one skill twice, counted once
C21_DistinctCounted ==
  /\ SkillScored
  /\ Cardinality(SkillRequired) < Len(c_args.job_requirements)
  /\ c_ret[1].value = Rat(73, 100)

\* 0.7 * required_ratio + 0.2 * nice_ratio, the score without a category term
ExactSkillSum(candidate, required, nice) ==
  RAdd(RMul(Rat(7, 10),
            Rat(Cardinality(candidate \cap required), Cardinality(required))),
       RMul(Rat(2, 10),
            IF nice = {} THEN RInt(0)
            ELSE Rat(Cardinality(candidate \cap nice), Cardinality(nice))))

\* C22: the category-overlap credit is awarded only when the candidate and the
\* job share no exact normalized skill; when the candidate has at least one
\* required skill exactly, the category term adds nothing to the score, which
\* is then min(1.0, 0.7 * required_ratio + 0.2 * nice_ratio).
C22_CategoryCreditOnlyWithoutExactMatch ==
  (SkillScored /\ c_args.job_requirements # << >>) =>
    LET candidate == SkillCandidate
        required == SkillRequired
    IN candidate \cap required # {} =>
         c_ret[1].value =
           RMin(RInt(1), ExactSkillSum(candidate, required, SkillNice))

(***************************************************************************)
(* The shortlist of match_candidate_to_jobs                                *)
(***************************************************************************)
\* the inner product of the candidate of the request with job j of jobs_data
JobInnerProduct(j) ==
  InnerProduct(JobTextVec[jobs_data[j].title],
               create_candidate_embedding(request[1].candidate))

\* the TF-IDF row of a job under the vectorizer in use (the row fit_transform
\* gave it when the matrix was built from the job)
JobTfidfRow(job) ==
  TfidfTransform(tfidf_vectorizer[1].vocabulary,
                 job_skill_text([ job EXCEPT
                                    !.requirements = JobList(job, "requirements") ]))

\* the fused score of the candidate of the request and job j
JobFusedScore(j) ==
  LET candidate_data == request[1].candidate
      job == jobs_data[j]
      candidate_tfidf == CandidateTfidf(tfidf_vectorizer[1], candidate_data)
  IN fused_final_score(
       JobInnerProduct(j),
       calculate_skill_match_score(candidate_data.skills,
                                   JobList(job, "requirements"),
                                   JobList(job, "nice_to_have")),
       calculate_experience_match_score(candidate_data.experience_years,
                                        JobList(job, "experience_years")),
       RMax(RInt(0), CosineSimilarity(candidate_tfidf.row,
                                      JobTfidfRow(job))))

ShortlistSize == Min2(2 * request[1].top_k, Len(jobs_data))

\* fewer than k' jobs have a strictly higher inner product than job j
AmongHighest(j) ==
  Cardinality({ i \in 1..Len(jobs_data) :
                  RGt(JobInnerProduct(i), JobInnerProduct(j)) }) < ShortlistSize

\* fewer than k' other jobs have an inner product as high as that of job j
SurelyShortlisted(j) ==
  Cardinality({ i \in 1..Len(jobs_data) \ { j } :
                  RGe(JobInnerProduct(i), JobInnerProduct(j)) }) < ShortlistSize

ReturnedJob(j) == \E i \in 1..Len(result) : result[i].job_details = jobs_data[j]

\* C23: match_candidate_to_jobs shortlists the k' = min(2 * top_k, |jobs|)
\* jobs of highest inner product and returns the best top_k of them by fused
\* score: every returned job is among the k' highest, and no shortlisted job
\* left out has a strictly higher fused score than a returned job.
C23_ShortlistThenBestByFusedScore ==
  Answered =>
    /\ \A i \in 1..Len(result) :
         \E j \in 1..Len(jobs_data) :
           jobs_data[j] = result[i].job_details /\ AmongHighest(j)
    /\ result # << >> =>
         \A j \in 1..Len(jobs_data) :
           (SurelyShortlisted(j) /\ ~ ReturnedJob(j)) =>
             \A i \in 1..Len(result) :
               RLe(JobFusedScore(j), result[i].score_breakdown.final_score)

\* the same on the states where every field was built from jobs_data
C23_ShortlistOnBuiltIndex ==
  FieldsOfOneCatalog => C23_ShortlistThenBestByFusedScore

\* one of three jobs returned: the job of highest inner product was
\* shortlisted and left out for its lower fused score, and the job outside
\* the shortlist was not scored
C23_Witness ==
  /\ Answered /\ FieldsOfOneCatalog
  /\ Len(jobs_data) = 3 /\ request[1].top_k = 1 /\ Len(result) = 1
  /\ \E j \in 1..3 :
       /\ ~ ReturnedJob(j) /\ SurelyShortlisted(j)
       /\ \A i \in 1..3 : RGe(JobInnerProduct(j), JobInnerProduct(i))
       /\ RLt(JobFusedScore(j), result[1].score_breakdown.final_score)
  /\ \E j \in 1..3 : ~ AmongHighest(j)

(***************************************************************************)
(* The explanation                                                         *)
(***************************************************************************)
ExplanationReturned == c_fn = "generate_enhanced_explanation" /\ c_ret # << >>

VerdictKinds == { "strong_match", "good_potential", "requires_review" }

\* the clause of a kind is present exactly when the set it reports is not
\* empty, and shows at most n skills of the set
ClauseIff(explanation, kind, skills, n) ==
  LET parts == PartsOfKind(explanation, kind) IN
  /\ Cardinality(parts) = (IF skills = {} THEN 0 ELSE 1)
  /\ \A p \in parts :
       /\ p.skills \subseteq skills
       /\ Cardinality(p.skills) = Min2(n, Cardinality(skills))

\* the clauses of a returned explanation
ExplanationClauses ==
  LET e == c_ret[1].value
      candidate_skills == NormSet(c_args.candidate_data.skills)
      required == NormSet(JobList(c_args.job, "requirements"))
      nice == NormSet(JobList(c_args.job, "nice_to_have"))
      verdict == IF RGe(c_args.final_score, Rat(8, 10)) THEN "strong_match"
                 ELSE IF RGe(c_args.final_score, Rat(6, 10)) THEN "good_potential"
                 ELSE "requires_review"
  IN /\ Len(e) >= 1
     /\ ClauseIff(e, "key_skills", candidate_skills \cap required, 3)
     /\ ClauseIff(e, "bonus_skills", candidate_skills \cap nice, 2)
     /\ ClauseIff(e, "missing", required \ candidate_skills, 2)
     /\ e[Len(e)].kind = verdict
     /\ \A i \in 1..(Len(e) - 1) : e[i].kind \notin VerdictKinds

\* C24: generate_enhanced_explanation never raises and returns a string that
\* is not empty: a key-skills clause iff a required skill is matched (at most
\* 3 shown), a bonus clause iff a nice-to-have skill is matched (at most 2), a
\* missing clause iff a required skill is missing (at most 2), and as its last
\* part exactly one verdict: strong match from 0.8, good potential from 0.6,
\* requires review below.
C24_ExplanationNeverRaises ==
  ExplanationReturned => (~ c_ret[1].raised /\ ExplanationClauses)

\* the clauses of every explanation that is returned
C24_ExplanationClausesWhenReturned ==
  (ExplanationReturned /\ ~ c_ret[1].raised) => ExplanationClauses

\* a candidate without skills and without experience against a job without
\* requirements: the verdict alone
C24_VerdictAlone ==
  /\ ExplanationReturned /\ ~ c_ret[1].raised
  /\ c_args.candidate_data.skills = << >>
  /\ JobList(c_args.job, "requirements") = << >>
  /\ Len(c_ret[1].value) = 1

(***************************************************************************)
(* The matcher's fields across the calls that read them                    *)
(***************************************************************************)
\* C25: match_candidate_to_jobs and analyze_skill_gaps leave jobs_data,
\* job_embeddings, the index, the vectorizer and the TF-IDF matrix as they
\* were before the call, whether the call returns its result or fails inside.
\* (The taxonomy skill_categories is assigned once, in the constructor.)  The
\* steps of the two calls are those that store a request with its result and
\* those that store the arguments and the outcome of a gap analysis.
MatchCalled == request = << >> /\ request' # << >>
GapsCalled == c_fn = "none" /\ c_fn' = "analyze_skill_gaps"

C25_CallsLeaveFieldsUnchanged ==
  [][(MatchCalled \/ GapsCalled) => UNCHANGED matcher_vars]_vars

\* a match that failed inside, answered on a built index
C25_Witness ==
  /\ faiss_index # << >> /\ Len(jobs_data) >= 2
  /\ Answered /\ request[1].top_k >= 1
  /\ match_body_exception(CurrentFields, request[1].candidate,
                          request[1].top_k) # "none"

\* a gap analysis that raised on a built index
C25_GapsRaised ==
  /\ faiss_index # << >> /\ Len(jobs_data) >= 2
  /\ c_fn = "analyze_skill_gaps" /\ c_ret # << >> /\ c_ret[1].raised

\* a gap analysis returned on a built index
C25_GapsReturned ==
  /\ faiss_index # << >> /\ Len(jobs_data) >= 2
  /\ c_fn = "analyze_skill_gaps" /\ c_ret # << >> /\ ~ c_ret[1].raised
  /\ c_ret[1].value.missing_required_skills # {}

(***************************************************************************)
(* analyze_skill_gaps: the skill sets and the recommendations              *)
(***************************************************************************)
GapsValue == c_ret[1].value
GapsAnalysed == GapsReturned /\ ~ c_ret[1].raised

\* C26: in the dict analyze_skill_gaps returns, matching_skills and
\* missing_required_skills are disjoint and together are the normalized
\* requirements of the job; readiness_score lies in [0, 1] and is 1 exactly
\* when there are requirements and none is missing.
C26_GapsPartitionRequirements ==
  GapsAnalysed =>
    LET required == NormSet(JobList(c_args.job, "requirements")) IN
    /\ GapsValue.matching_skills \cap GapsValue.missing_required_skills = {}
    /\ GapsValue.matching_skills \cup GapsValue.missing_required_skills
         = required
    /\ RGe(GapsValue.readiness_score, RInt(0))
    /\ RLe(GapsValue.readiness_score, RInt(1))
    /\ (GapsValue.readiness_score = RInt(1))
         <=> (required # {} /\ GapsValue.missing_required_skills = {})

\* every requirement matched through aliases, a nice-to-have skill matched
\* too: readiness 1
C26_Witness ==
  /\ GapsAnalysed
  /\ GapsValue.readiness_score = RInt(1)
  /\ Cardinality(GapsValue.matching_skills) = 2
  /\ NormSet(c_args.candidate_data.skills)
       \cap NormSet(JobList(c_args.job, "nice_to_have")) # {}

\* some requirements matched and some missing
C26_PartlyReady ==
  /\ GapsAnalysed
  /\ GapsValue.matching_skills # {}
  /\ GapsValue.missing_required_skills # {}
  /\ RLt(GapsValue.readiness_score, RInt(1))

\* C30: analyze_skill_gaps returns min(3, number of missing required skills)
\* training recommendations, each for another missing required skill, all
\* with priority "High" and estimated_time "2-3 months"; "Medium" is never
\* given.
C30_RecommendationsForMissingRequired ==
  GapsAnalysed =>
    LET recommendations == GapsValue.training_recommendations
        missing == NormSet(JobList(c_args.job, "requirements"))
                     \ NormSet(c_args.candidate_data.skills)
    IN /\ Cardinality(recommendations) = Min2(3, Cardinality(missing))
       /\ Cardinality({ r.skill : r \in recommendations })
            = Cardinality(recommendations)
       /\ \A r \in recommendations :
            /\ \E skill \in missing : r.skill = StrTitle(skill)
            /\ r.priority = "High"
            /\ r.estimated_time = "2-3 months"

\* five requirements missing, three recommendations, one of them with the
\* generic resources
C30_Witness ==
  /\ GapsAnalysed
  /\ Cardinality(GapsValue.missing_required_skills) = 5
  /\ Cardinality(GapsValue.training_recommendations) = 3
  /\ \E r \in GapsValue.training_recommendations :
       r.suggested_resources.family = "generic"

(***************************************************************************)
(* Candidates without skills, jobs without requirements                    *)
(***************************************************************************)
\* the request answered was made for a candidate whose skills list is empty
EmptySkillsAnswered ==
  /\ Answered
  /\ "skills" \notin request[1].candidate.null
  /\ request[1].candidate.skills = << >>

\* C27: for a candidate whose skills list is empty, every returned match has
\* skill_score 0 and tfidf_score 0, hence similarity_score <= 50 and
\* confidence_band HUMAN, whatever the semantic and the experience score.
C27_EmptySkillsAtMostHalf ==
  EmptySkillsAnswered =>
    \A i \in 1..Len(result) :
      /\ result[i].score_breakdown.skill_score = RInt(0)
      /\ result[i].score_breakdown.tfidf_score = RInt(0)
      /\ RLe(result[i].similarity_score, RInt(50))
      /\ result[i].confidence_band = "HUMAN"

\* two jobs with requirements returned to a candidate without skills, one
\* of them with semantic_score 1.0
C27_Witness ==
  /\ EmptySkillsAnswered /\ Len(result) = 2
  /\ \E i \in 1..2 : result[i].score_breakdown.semantic_score = RInt(1)
  /\ \A i \in 1..2 : Len(JobList(result[i].job_details, "requirements")) > 0

\* a job returned to a candidate without skills with experience_score 1.0
C27_FullExperience ==
  /\ EmptySkillsAnswered
  /\ \E i \in 1..Len(result) :
       /\ result[i].score_breakdown.experience_score = RInt(1)
       /\ RGt(result[i].score_breakdown.semantic_score, RInt(0))

\* the scoring pass has returned for a job whose requirements list is empty
NoRequirementsScored ==
  /\ c_fn = "score_match" /\ c_ret # << >>
  /\ JobList(c_args.job, "requirements") = << >>

\* C28: for a job whose requirements list is empty the skill score is 0, also
\* when the candidate has its nice-to-have skills; the fused score is then at
\* most 0.6 and the confidence band is never AUTO.
C28_NoRequirementsNeverAuto ==
  NoRequirementsScored =>
    LET match == c_ret[1].value IN
    /\ match.score_breakdown.skill_score = RInt(0)
    /\ RLe(match.score_breakdown.final_score, Rat(6, 10))
    /\ match.confidence_band # "AUTO"

\* both nice-to-have skills matched, every other sub-score at 1.0: fused
\* score 0.6, band REVIEW
C28_Witness ==
  /\ NoRequirementsScored
  /\ NormSet(JobList(c_args.job, "nice_to_have"))
       \subseteq NormSet(c_args.candidate_data.skills)
  /\ JobList(c_args.job, "nice_to_have") # << >>
  /\ c_ret[1].value.score_breakdown.final_score = Rat(6, 10)
  /\ c_ret[1].value.confidence_band = "REVIEW"

(***************************************************************************)
(* The skill score as the candidate's skills grow                          *)
(***************************************************************************)
\* the skills added to the candidate's list
AddedSkills == SkillPool \cup { SkillJava }

\* the score of the call's candidate with one more skill
ScoreWith(skill) ==
  calculate_skill_match_score(Append(c_args.candidate_skills, skill),
                              c_args.job_requirements,
                              c_args.job_nice_to_have)

\* C29: for fixed requirements and nice-to-have skills, a skill added to the
\* candidate's skills never lowers the skill score.
C29_SkillScoreMonotone ==
  SkillScored =>
    \A skill \in AddedSkills : RGe(ScoreWith(skill), c_ret[1].value)

\* a candidate with one skill of a category in which the job requires
\* another: a second skill of the category leaves the credit as it is, the
\* required skill raises the score
C29_Witness ==
  /\ SkillScored
  /\ c_args.candidate_skills = << SkillPython >>
  /\ c_args.job_requirements = << SkillJava >>
  /\ c_ret[1].value = Rat(3, 100)
  /\ ScoreWith(SkillJS) = c_ret[1].value
  /\ RGt(ScoreWith(SkillJava), c_ret[1].value)


====
